---- MODULE Spec2Model ----
(***************************************************************************)
(* Model of the esp_jrnl journaling engine (srcs/esp_jrnl.c): the on-disk  *)
(* store, the transaction state machine, replay and mount-time recovery.   *)
(* One application thread issues the public calls; every access to the     *)
(* underlying block device is one step, so that a power loss (Crash) can   *)
(* fall between any two device operations.                                 *)
(***************************************************************************)
EXTENDS Integers, Sequences, FiniteSets, TLC

\* ------------------------------------------------------------------ bounds
FsSectors == 2          \* sectors of the file-system area in front of the store
StoreSizeSectors == 7   \* user_cfg.store_size_sectors the application mounts with
MaxCount == 2           \* largest sector count of one write call
NumPayloads == 1        \* distinct payload patterns the application writes
MaxCrashes == 1         \* power losses in one behaviour
MaxFaults == 1          \* device errors in one behaviour (SpecFault only)
MaxTrans == 2           \* transactions begun in one behaviour
MaxDirect == 1          \* direct (INIT) writes in one behaviour
MaxOther == 1           \* calls of the second thread in one behaviour (SpecConc only)
MaxDecays == 1          \* store sectors that lose their content (SpecDecay only)
MaxAllocFails == 1      \* allocations that fail in one behaviour (SpecAlloc only)
MaxVfsMounts == 2       \* calls of esp_vfs_fat_spiflash_mount_jrnl (SpecVfs only)
SectorSize == 512       \* volume_cfg.disk_sector_size of the device

\* ------------------------------------------------------- program constants
JRNL_INVALID_HANDLE == -1
JRNL_MAX_HANDLES == 8
JRNL_MIN_STORE_SIZE == 3
JRNL_STORE_MARKER == 1785424237      \* 0x6A6B6C6D

ESP_JRNL_STATUS_FS_INIT == 0
ESP_JRNL_STATUS_FS_DIRECT == ESP_JRNL_STATUS_FS_INIT
ESP_JRNL_STATUS_TRANS_READY == 1
ESP_JRNL_STATUS_TRANS_OPEN == 2
ESP_JRNL_STATUS_TRANS_COMMIT == 3

NULL == 0

TotalSectors == FsSectors + StoreSizeSectors
VolumeSize == TotalSectors * SectorSize
Handles == 0 .. (JRNL_MAX_HANDLES - 1)
FsArea == 0 .. (FsSectors - 1)

\* ---------------------------------------------------------- sector contents
\* A sector is abstracted to what the engine can tell apart when it reads it
\* back: erased flash, a payload sector, an operation header, a master record,
\* or the result of programming flash that was not erased.
Erased == [k |-> "erased"]
Garbled == [k |-> "garbled"]
Data(v, i) == [k |-> "data", v |-> v, i |-> i]

\* the i-th sector (0-based) of the buffer an application passes to write
Payload(v, count) == [i \in 1 .. count |-> Data(v, i - 1)]

ZeroMaster ==
    [k |-> "master", jrnl_magic_mark |-> 0, store_size_sectors |-> 0,
     store_volume_offset_sector |-> 0, next_free_sector |-> 0,
     status |-> ESP_JRNL_STATUS_FS_INIT, volume_size |-> 0, disk_sector_size |-> 0]

\* (void*)&jrnl->master filled by a raw read of the master sector: a sector
\* that holds no master record yields a magic different from the marker
AsMaster(sec) ==
    IF sec.k = "master" THEN sec
    ELSE [ZeroMaster EXCEPT !.jrnl_magic_mark = JRNL_STORE_MARKER - 1,
                            !.status = ESP_JRNL_STATUS_TRANS_COMMIT + 1]

\* --------------------------------------------------------------- checksums
\* esp_crc32_le(UINT32_MAX, buf, len) abstracted to a fold over the words of
\* the buffer (seed = all ones, no final xor), reduced to 16 bits so that the
\* products stay inside 32-bit integers.
CrcMod == 65521
CrcSeed == CrcMod - 1

RECURSIVE CrcFold(_, _)
CrcFold(acc, words) ==
    IF words = <<>> THEN acc
    ELSE CrcFold((acc * 33 + Head(words) + 1) % CrcMod, Tail(words))

esp_crc32_le(seed, words) == CrcFold(seed, words)

EncSector(sec) ==
    IF sec.k = "data" THEN 1 + sec.v * (MaxCount + 2) + sec.i
    ELSE IF sec.k = "erased" THEN CrcMod - 1
    ELSE 0

EncBuffer(buf) == [i \in 1 .. Len(buf) |-> EncSector(buf[i])]

HeaderWords(h) == <<h.target_sector, h.sector_count, h.crc32_data>>

\* variant: the checksum of the data is left at the zero of calloc
MakeOperHeaderNoDataCrc(sector, count, buff) ==
    LET h0 == [k |-> "hdr", target_sector |-> sector, sector_count |-> count,
               crc32_data |-> 0, crc32_header |-> 0]
    IN [h0 EXCEPT !.crc32_header = esp_crc32_le(CrcSeed, HeaderWords(h0))]

\* esp_jrnl_operation_t as built by esp_jrnl_write
MakeOperHeader(sector, count, buff) ==
    LET crcd == esp_crc32_le(CrcSeed, EncBuffer(buff))
        h0 == [k |-> "hdr", target_sector |-> sector, sector_count |-> count,
               crc32_data |-> crcd, crc32_header |-> 0]
    IN [h0 EXCEPT !.crc32_header = esp_crc32_le(CrcSeed, HeaderWords(h0))]

\* a sector read back as esp_jrnl_operation_t: anything that is not a header
\* gives fields whose stored checksum does not match
AsOperHeader(sec) ==
    IF sec.k = "hdr" THEN sec
    ELSE LET h0 == [k |-> "hdr", target_sector |-> 0, sector_count |-> 0,
                    crc32_data |-> 0, crc32_header |-> 0]
         IN [h0 EXCEPT !.crc32_header =
                 (esp_crc32_le(CrcSeed, HeaderWords(h0)) + 1) % CrcMod]

\* ------------------------------------------------------- underlying device
\* wl_read / wl_write / wl_erase_range by their contract: byte addressed,
\* sector aligned, an access beyond the volume is refused.
DevInRange(addr, size) == addr >= 0 /\ size >= 0 /\ addr + size <= VolumeSize

DevSectors(addr, size) ==
    { s \in 0 .. (TotalSectors - 1) :
        addr \div SectorSize <= s /\ s < (addr + size) \div SectorSize }

jrnl_erase_range_raw(d, addr, size) ==
    [s \in DOMAIN d |-> IF s \in DevSectors(addr, size) THEN Erased ELSE d[s]]

\* programming a sector that was not erased first does not give the data
jrnl_write_raw(d, addr, buf) ==
    [s \in DOMAIN d |->
        IF s \in DevSectors(addr, Len(buf) * SectorSize)
        THEN IF d[s] = Erased THEN buf[s - (addr \div SectorSize) + 1] ELSE Garbled
        ELSE d[s]]

jrnl_read_raw(d, addr, count) ==
    [i \in 1 .. count |-> d[(addr \div SectorSize) + i - 1]]

\* ------------------------------------------------------------------- state
VARIABLES
    disk,                   \* the block device: sector index -> content
    s_jrnl_instance_ptrs,   \* the instance table: handle -> NULL or pointer
    instances,              \* the heap objects the table entries point to
    s_instances_lock,       \* the global registry lock is held
    s_jrnl_handle,          \* the handle the application holds (-1: none)
    pc,                     \* position of the application thread
    call,                   \* the public call in progress and its arguments
    loc,                    \* locals of the call in progress
    ret,                    \* value returned by the call that just ended
    gh,                     \* history of the run, used only to state properties
    used,                   \* how much of each bound the run has used up
    other,                  \* a second thread of the application: its position
                            \* in a call on the same instance
    vfs                     \* the FAT/VFS glue: what it has acquired, and its
                            \* position in esp_vfs_fat_spiflash_(un)mount_jrnl

vars == <<disk, s_jrnl_instance_ptrs, instances, s_instances_lock, s_jrnl_handle,
          pc, call, loc, ret, gh, used, other, vfs>>

need_fresh_journal(cfg) == cfg.force_fs_format \/ cfg.overwrite_existing

\* esp_jrnl_config_t the application mounts with: a fresh store (by either
\* flag), an existing store with replay, an existing store without replay
Configs ==
    { c \in [overwrite_existing : BOOLEAN, replay_journal_after_mount : BOOLEAN,
             force_fs_format : BOOLEAN, store_size_sectors : {StoreSizeSectors}] :
        /\ c.force_fs_format => ~c.overwrite_existing
        /\ c.replay_journal_after_mount => ~need_fresh_journal(c) }

NoCfg ==
    [overwrite_existing |-> FALSE, replay_journal_after_mount |-> FALSE,
     force_fs_format |-> FALSE, store_size_sectors |-> 0]

ZeroHeader ==
    [k |-> "hdr", target_sector |-> 0, sector_count |-> 0,
     crc32_data |-> 0, crc32_header |-> 0]

NoCall ==
    [op |-> "none", handle |-> JRNL_INVALID_HANDLE, commit |-> FALSE, on |-> FALSE,
     sector |-> 0, count |-> 0, v |-> 0, cfg |-> NoCfg,
     pretxn |-> "none", premaster |-> ZeroMaster, predisk |-> <<>>,
     pretable |-> <<>>, preinst |-> <<>>]

NoLoc ==
    [inst |-> 0, cursor |-> 0, err |-> "ESP_OK", cont |-> "none", rcaller |-> "none",
     hdr |-> ZeroHeader, data |-> <<>>, out_handle |-> JRNL_INVALID_HANDLE,
     devread |-> FALSE, fs_part_sector_count |-> 0, sector_size |-> 0]

\* the glue has acquired nothing and is in no call. wl: wear-levelling
\* instances mounted; diskio: FATFS disk I/O registered for the instance;
\* pdrvh: instance connected to the FATFS volume; path: base_path registered;
\* fmounted: FATFS volume mounted; out: the caller's *jrnl_handle
VfsIdle ==
    [pc |-> "idle", op |-> "none", result |-> "NONE", cfg |-> NoCfg, wl |-> 0,
     diskio |-> FALSE, pdrvh |-> FALSE, path |-> FALSE, fmounted |-> FALSE,
     out |-> JRNL_INVALID_HANDLE, calls |-> 0]

\* the second thread is in no call
OtherIdle == [pc |-> "idle", sector |-> 0, count |-> 0, v |-> 0]

\* calloc(1, sizeof(esp_jrnl_instance_t)) followed by _lock_init
NewInstance == [alloc |-> TRUE, trans_lock |-> FALSE, master |-> ZeroMaster]
FreeInstance == [alloc |-> FALSE, trans_lock |-> FALSE, master |-> ZeroMaster]

FsImage(d) == [s \in FsArea |-> d[s]]

\* the sector that holds the master record of the volume
MasterSector == TotalSectors - 1
DiskMaster == AsMaster(disk[MasterSector])
DiskHasMaster == disk[MasterSector].k = "master"

\* the effect a write call is meant to have on the file-system area
Overlay(img, w) ==
    [s \in FsArea |->
        IF w.sector <= s /\ s < w.sector + w.count
        THEN Data(w.v, s - w.sector) ELSE img[s]]

RECURSIVE ApplyAll(_, _)
ApplyAll(img, ws) ==
    IF ws = <<>> THEN img ELSE ApplyAll(Overlay(img, Head(ws)), Tail(ws))

InitDisk ==
    [s \in 0 .. (TotalSectors - 1) |-> IF s \in FsArea THEN Data(0, s) ELSE Erased]

\* txn: "none", "open" (begin accepted) or "commit" (COMMIT master persisted);
\* fsAtBegin: file-system area when the transaction began; txWrites: its
\* journaled writes in call order; committed: the device right after the COMMIT
\* master was persisted; applied: a replay has written every entry; image:
\* what a run without power loss has committed so far; clean: no power loss
\* yet; remount: the current mount kept the existing store; replays: replay
\* passes over the entries started by the call in progress
InitGh ==
    [txn |-> "none", fsAtBegin |-> FsImage(InitDisk), txWrites |-> <<>>,
     committed |-> InitDisk, applied |-> FALSE, image |-> FsImage(InitDisk),
     clean |-> TRUE, remount |-> FALSE, replays |-> 0]

Init ==
    /\ disk = InitDisk
    /\ s_jrnl_instance_ptrs = [h \in Handles |-> NULL]
    /\ instances = [h \in Handles |-> FreeInstance]
    /\ s_instances_lock = FALSE
    /\ s_jrnl_handle = JRNL_INVALID_HANDLE
    /\ pc = "idle"
    /\ call = NoCall
    /\ loc = NoLoc
    /\ ret = "NONE"
    /\ gh = InitGh
    /\ used = [crashes |-> 0, faults |-> 0, trans |-> 0, direct |-> 0, other |-> 0, decays |-> 0, allocs |-> 0]
    /\ other = OtherIdle
    /\ vfs = VfsIdle

\* --------------------------------------------------------- pure helpers
jrnl_check_handle(handle) ==
    IF handle = JRNL_INVALID_HANDLE THEN "ESP_ERR_INVALID_STATE"
    ELSE IF handle >= JRNL_MAX_HANDLES THEN "ESP_ERR_INVALID_ARG"
    ELSE IF s_jrnl_instance_ptrs[handle] = NULL THEN "ESP_ERR_NOT_FOUND"
    ELSE "ESP_OK"

jrnl_get_target_disk_sector(m, jrnl_sector) ==
    m.store_volume_offset_sector + jrnl_sector

\* variant: the reset forgets to rewind next_free_sector
jrnl_reset_master_keeps_nfs(m, fs_direct) ==
    [m EXCEPT !.jrnl_magic_mark = JRNL_STORE_MARKER,
              !.status = IF fs_direct THEN ESP_JRNL_STATUS_FS_DIRECT
                         ELSE ESP_JRNL_STATUS_TRANS_READY]

\* the in-memory part of jrnl_reset_master
jrnl_reset_master(m, fs_direct) ==
    [m EXCEPT !.jrnl_magic_mark = JRNL_STORE_MARKER,
              !.next_free_sector = 0,
              !.status = IF fs_direct THEN ESP_JRNL_STATUS_FS_DIRECT
                         ELSE ESP_JRNL_STATUS_TRANS_READY]

\* variant: the loop keeps the last free slot it meets
FirstFreeHandleNoBreak ==
    IF \E h \in Handles : s_jrnl_instance_ptrs[h] = NULL
    THEN CHOOSE h \in Handles :
            /\ s_jrnl_instance_ptrs[h] = NULL
            /\ \A g \in Handles : g > h => s_jrnl_instance_ptrs[g] # NULL
    ELSE JRNL_INVALID_HANDLE

\* first free slot of the table, as the loop of esp_jrnl_mount finds it
FirstFreeHandle ==
    IF \E h \in Handles : s_jrnl_instance_ptrs[h] = NULL
    THEN CHOOSE h \in Handles :
            /\ s_jrnl_instance_ptrs[h] = NULL
            /\ \A g \in Handles : g < h => s_jrnl_instance_ptrs[g] # NULL
    ELSE JRNL_INVALID_HANDLE

\* variant: the size of the store is not compared
ConfigConsistentButStoreSize(cfg, m) ==
    /\ VolumeSize = m.volume_size
    /\ SectorSize = m.disk_sector_size

\* consistency check of esp_jrnl_mount between configuration and master
ConfigConsistent(cfg, m) ==
    /\ VolumeSize = m.volume_size
    /\ SectorSize = m.disk_sector_size
    /\ cfg.store_size_sectors = m.store_size_sectors

\* variant: begin refused only while a transaction is open
StartAllowedUnlessOpen(status) == status # ESP_JRNL_STATUS_TRANS_OPEN

\* esp_jrnl_start: a transaction may be opened
StartAllowed(status) == status = ESP_JRNL_STATUS_TRANS_READY

\* variant: commit accepted from OPEN onwards
CommitAllowedFromOpen(status) == status >= ESP_JRNL_STATUS_TRANS_OPEN

\* esp_jrnl_stop(commit = true): the transaction may be committed
CommitAllowed(status) == status = ESP_JRNL_STATUS_TRANS_OPEN

\* variant: a write inside a transaction goes straight to its target
WritePathDirectInOpen(status) ==
    IF status = ESP_JRNL_STATUS_FS_DIRECT \/ status = ESP_JRNL_STATUS_TRANS_OPEN
    THEN "direct"
    ELSE "invalid"

\* variant: a write is journaled whenever direct access is off
WritePathJournalUnlessDirect(status) ==
    IF status = ESP_JRNL_STATUS_FS_DIRECT THEN "direct" ELSE "journal"

\* esp_jrnl_write: where the data goes for the status of the instance
WritePath(status) ==
    IF status = ESP_JRNL_STATUS_FS_DIRECT THEN "direct"
    ELSE IF status = ESP_JRNL_STATUS_TRANS_OPEN THEN "journal"
    ELSE "invalid"

\* variant: an OPEN journal is applied like a committed one
ReplayBranchAppliesOpen(status) ==
    IF status = ESP_JRNL_STATUS_TRANS_COMMIT \/ status = ESP_JRNL_STATUS_TRANS_OPEN
    THEN "apply"
    ELSE IF status = ESP_JRNL_STATUS_TRANS_READY THEN "empty"
    ELSE "invalid"

\* variant: a committed journal is cleaned like an OPEN one
ReplayBranchCleansCommit(status) ==
    IF status = ESP_JRNL_STATUS_TRANS_READY THEN "empty"
    ELSE IF status = ESP_JRNL_STATUS_TRANS_OPEN \/ status = ESP_JRNL_STATUS_TRANS_COMMIT
    THEN "clean"
    ELSE "invalid"

\* jrnl_replay: what is done for the status of the master
ReplayBranch(status) ==
    IF status = ESP_JRNL_STATUS_TRANS_COMMIT THEN "apply"
    ELSE IF status = ESP_JRNL_STATUS_TRANS_READY THEN "empty"
    ELSE IF status = ESP_JRNL_STATUS_TRANS_OPEN THEN "clean"
    ELSE "invalid"

\* variant: the loop stops one entry early
ReplayLoopCondSkipsLast(cursor, m) == cursor + 2 < m.next_free_sector

\* jrnl_replay: the condition of the loop over the entries
ReplayLoopCond(cursor, m) == cursor < m.next_free_sector

\* variant: only the first sector of the target range is erased
ReplayEraseSizeOneSector(hdr, ss) == ss

\* jrnl_replay: the size of the target range erased for an entry
ReplayEraseSize(hdr, ss) == hdr.sector_count * ss

\* variant: the check forgets the sector of the master record
StoreHasRoomIgnoringMaster(m, count) ==
    (m.next_free_sector + 1 + count) <= m.store_size_sectors

\* variant: the comparison is not strict
StoreHasRoomUpToMaster(m, count) ==
    (m.next_free_sector + 1 + count) <= (m.store_size_sectors - 1)

\* uint32_t values: a value v >= 2^31 is written v - 2^32 (two's complement),
\* so that sums and products of the magnitudes used here are the C results
\* modulo 2^32; U32Geq is the unsigned comparison a >= b
U32Geq(a, b) == IF (a < 0) = (b < 0) THEN a >= b ELSE a < 0

\* the capacity check of esp_jrnl_write: the sum is a uint32_t sum, the
\* comparison is unsigned
StoreHasRoom(m, count) ==
    ~U32Geq(m.next_free_sector + 1 + count, m.store_size_sectors - 1)

\* variant: only an open transaction keeps the switch from happening
DirectIoAllowedUnlessOpen(status) ==
    status # ESP_JRNL_STATUS_TRANS_OPEN

\* esp_jrnl_set_direct_io: the statuses in which the switch is carried out
DirectIoAllowed(status) ==
    ~(/\ status # ESP_JRNL_STATUS_FS_DIRECT
      /\ status # ESP_JRNL_STATUS_TRANS_READY)

\* the bounds check of esp_jrnl_read (TRUE: the request is refused)
ReadOutOfBounds(m, sector, count) ==
    U32Geq(sector + count, m.store_volume_offset_sector)

\* variant: the read is served from the journaling store
esp_jrnl_read_addr_in_store(m, sector) ==
    jrnl_get_target_disk_sector(m, sector) * m.disk_sector_size

\* esp_jrnl_read: the device address the request is passed on with
esp_jrnl_read_addr(m, sector) == sector * m.disk_sector_size

\* esp_jrnl_read on master m and device d: the error returned, the data put
\* into dest, and whether the device was asked to read
esp_jrnl_read_result(m, d, sector, count) ==
    LET addr == esp_jrnl_read_addr(m, sector)
        size == count * m.disk_sector_size
    IN IF ReadOutOfBounds(m, sector, count)
       THEN [err |-> "ESP_ERR_INVALID_SIZE", data |-> <<>>, devread |-> FALSE]
       ELSE IF DevInRange(addr, size)
       THEN [err |-> "ESP_OK", data |-> jrnl_read_raw(d, addr, count),
             devread |-> TRUE]
       ELSE [err |-> "ESP_ERR_INVALID_ARG", data |-> <<>>, devread |-> TRUE]

\* ------------------------------------------------------- call bookkeeping
M(i) == instances[i].master

NewCall(op, handle) ==
    [NoCall EXCEPT !.op = op, !.handle = handle, !.pretxn = gh.txn,
                   !.premaster = IF handle \in Handles THEN M(handle) ELSE ZeroMaster,
                   !.predisk = disk, !.pretable = s_jrnl_instance_ptrs,
                   !.preinst = instances]

\* the call returns r to the application
Return(r) ==
    /\ pc' = "ret"
    /\ ret' = r

\* the history kept for the properties, updated when a master is persisted
GhAfterPersist(cont, m) ==
    CASE cont = "write" ->
            [gh EXCEPT !.txWrites =
                Append(@, [sector |-> call.sector, count |-> call.count, v |-> call.v])]
      [] cont = "commit" ->
            [gh EXCEPT !.txn = "commit", !.applied = FALSE, !.committed = disk']
      [] cont = "replay" ->
            [gh EXCEPT !.txn = "none",
                       !.image = IF gh.txn = "commit" /\ gh.clean
                                 THEN ApplyAll(@, gh.txWrites) ELSE @]
      [] cont \in {"cancel", "mount"} -> [gh EXCEPT !.txn = "none"]
      [] OTHER -> gh

\* variant: the replay is started whatever the update of the master returned
CommitProceedsAnyway(e) == TRUE

\* esp_jrnl_stop goes on to jrnl_replay when the COMMIT master was persisted
CommitProceeds(e) == e = "ESP_OK"

\* what follows jrnl_update_master at each of its call sites, e being its result
UpdDone(cont, e) ==
    LET i == loc.inst IN
    CASE cont \in {"start", "cancel", "write", "dio"} ->
            /\ instances' = [instances EXCEPT ![i].trans_lock = FALSE]
            /\ Return(e)
            /\ loc' = loc
            /\ UNCHANGED <<s_jrnl_instance_ptrs, s_instances_lock, s_jrnl_handle>>
      [] cont = "commit" ->
            /\ instances' = [instances EXCEPT ![i].trans_lock = FALSE]
            /\ IF CommitProceeds(e)
               THEN /\ pc' = "rp_enter"
                    /\ loc' = [loc EXCEPT !.rcaller = "stop"]
                    /\ ret' = ret
               ELSE /\ Return(e)
                    /\ loc' = loc
            /\ UNCHANGED <<s_jrnl_instance_ptrs, s_instances_lock, s_jrnl_handle>>
      [] cont = "replay" ->
            /\ pc' = "rp_exit"
            /\ loc' = [loc EXCEPT !.err = e]
            /\ UNCHANGED <<instances, ret, s_jrnl_instance_ptrs, s_instances_lock,
                           s_jrnl_handle>>
      [] cont = "mount" ->
            /\ pc' = "mount_exit"
            /\ loc' = [loc EXCEPT !.err = e]
            /\ UNCHANGED <<instances, ret, s_jrnl_instance_ptrs, s_instances_lock,
                           s_jrnl_handle>>

\* ------------------------------------------------ jrnl_update_master steps
\* jrnl_write_internal(jrnl, master, store_size_sectors - 1, 1): erase ...
jrnl_update_master_erase ==
    /\ pc = "upd_erase"
    /\ LET m == M(loc.inst)
           sector == m.store_size_sectors - 1
           addr == jrnl_get_target_disk_sector(m, sector) * m.disk_sector_size
       IN /\ sector < m.store_size_sectors
          /\ DevInRange(addr, m.disk_sector_size)
          /\ disk' = jrnl_erase_range_raw(disk, addr, m.disk_sector_size)
    /\ pc' = "upd_write"
    /\ UNCHANGED <<other, s_jrnl_instance_ptrs, instances, s_instances_lock, s_jrnl_handle,
                   call, loc, ret, gh, used>>
    /\ UNCHANGED vfs

\* ... then write the in-memory master to the last sector of the store
jrnl_update_master_write ==
    /\ pc = "upd_write"
    /\ LET m == M(loc.inst)
           sector == m.store_size_sectors - 1
           addr == jrnl_get_target_disk_sector(m, sector) * m.disk_sector_size
       IN /\ DevInRange(addr, m.disk_sector_size)
          /\ disk' = jrnl_write_raw(disk, addr, <<m>>)
          /\ gh' = GhAfterPersist(loc.cont, m)
    /\ UpdDone(loc.cont, "ESP_OK")
    /\ UNCHANGED <<other, call, used>>
    /\ UNCHANGED vfs

\* ------------------------------------------------------------ esp_jrnl_mount
esp_jrnl_mount(cfg) ==
    /\ pc = "idle"
    /\ s_jrnl_handle = JRNL_INVALID_HANDLE
    /\ cfg.store_size_sectors >= JRNL_MIN_STORE_SIZE
    /\ ~s_instances_lock
    /\ call' = [NewCall("mount", JRNL_INVALID_HANDLE) EXCEPT
                    !.cfg = cfg, !.premaster = DiskMaster]
    /\ LET out == FirstFreeHandle IN
       IF out = JRNL_INVALID_HANDLE
       THEN /\ Return("ESP_ERR_NO_MEM")
            /\ UNCHANGED <<instances, s_instances_lock, loc>>
       ELSE /\ s_instances_lock' = TRUE
            /\ instances' = [instances EXCEPT ![out] = NewInstance]
            /\ loc' = [NoLoc EXCEPT !.inst = out, !.out_handle = out]
            /\ pc' = IF need_fresh_journal(cfg) THEN "mount_reset" ELSE "mount_read"
            /\ ret' = ret
    /\ UNCHANGED <<other, disk, s_jrnl_instance_ptrs, s_jrnl_handle, gh, used>>
    /\ UNCHANGED vfs

\* read the last sector of the volume into jrnl->master and inspect it
esp_jrnl_mount_read ==
    /\ pc = "mount_read"
    /\ LET i == loc.inst
           m == AsMaster(jrnl_read_raw(disk, VolumeSize - SectorSize, 1)[1])
       IN /\ instances' = [instances EXCEPT ![i].master = m]
          /\ IF m.jrnl_magic_mark = JRNL_STORE_MARKER
             THEN IF ~ConfigConsistent(call.cfg, m)
                  THEN /\ pc' = "mount_exit"
                       /\ loc' = [loc EXCEPT !.err = "ESP_ERR_INVALID_STATE"]
                  ELSE IF call.cfg.replay_journal_after_mount
                  THEN /\ pc' = "rp_enter"
                       /\ loc' = [loc EXCEPT !.rcaller = "mount"]
                  ELSE /\ pc' = "mount_reset"
                       /\ loc' = loc
             ELSE /\ pc' = "mount_reset"
                  /\ loc' = loc
    /\ UNCHANGED <<other, disk, s_jrnl_instance_ptrs, s_instances_lock, s_jrnl_handle,
                   call, ret, gh, used>>
    /\ UNCHANGED vfs

\* "Creating fresh journaling store": fill the master and reset it
esp_jrnl_mount_reset ==
    /\ pc = "mount_reset"
    /\ LET i == loc.inst
           m1 == [M(i) EXCEPT
                    !.store_size_sectors = call.cfg.store_size_sectors,
                    !.store_volume_offset_sector =
                        (VolumeSize \div SectorSize) - call.cfg.store_size_sectors,
                    !.volume_size = VolumeSize,
                    !.disk_sector_size = SectorSize]
       IN instances' = [instances EXCEPT
                    ![i].master = jrnl_reset_master(m1, need_fresh_journal(call.cfg))]
    /\ loc' = [loc EXCEPT !.cont = "mount"]
    /\ pc' = "upd_erase"
    /\ UNCHANGED <<other, disk, s_jrnl_instance_ptrs, s_instances_lock, s_jrnl_handle,
                   call, ret, gh, used>>
    /\ UNCHANGED vfs

\* end of esp_jrnl_mount: register the instance or delete it
esp_jrnl_mount_exit ==
    /\ pc = "mount_exit"
    /\ IF loc.err = "ESP_OK"
       THEN /\ s_jrnl_instance_ptrs' =
                    [s_jrnl_instance_ptrs EXCEPT ![loc.out_handle] = loc.out_handle + 1]
            /\ s_jrnl_handle' = loc.out_handle
            /\ instances' = instances
            /\ gh' = [gh EXCEPT !.remount = ~need_fresh_journal(call.cfg)]
       ELSE /\ instances' = [instances EXCEPT ![loc.inst] = FreeInstance]
            /\ UNCHANGED <<s_jrnl_instance_ptrs, s_jrnl_handle, gh>>
    /\ s_instances_lock' = FALSE
    /\ Return(loc.err)
    /\ UNCHANGED <<other, disk, call, loc, used>>
    /\ UNCHANGED vfs

\* --------------------------------------------------------------- jrnl_replay
\* variant: the stored checksum is not looked at
ChecksumIgnored(computed, stored) == TRUE

\* the comparison of a computed checksum with the stored one in jrnl_replay
ChecksumMatches(computed, stored) == computed = stored

\* one pass of the loop head: read and verify the header at the cursor, then
\* read and verify its data; err = "ESP_OK" when the entry is ready to apply
ReplayFetch(d, m, cursor) ==
    LET ss == m.disk_sector_size
        haddr == jrnl_get_target_disk_sector(m, cursor) * ss
        h == AsOperHeader(jrnl_read_raw(d, haddr, 1)[1])
        daddr == jrnl_get_target_disk_sector(m, cursor + 1) * ss
        none == [err |-> "ESP_OK", hdr |-> ZeroHeader, data |-> <<>>]
    IN IF cursor >= m.store_size_sectors \/ ~DevInRange(haddr, ss)
       THEN [none EXCEPT !.err = "ESP_ERR_INVALID_ARG"]
       ELSE IF ~ChecksumMatches(esp_crc32_le(CrcSeed, HeaderWords(h)), h.crc32_header)
       THEN [none EXCEPT !.err = "ESP_ERR_INVALID_CRC"]
       ELSE IF cursor + 1 >= m.store_size_sectors
               \/ ~DevInRange(daddr, h.sector_count * ss)
       THEN [none EXCEPT !.err = "ESP_ERR_INVALID_ARG", !.hdr = h]
       ELSE LET data == jrnl_read_raw(d, daddr, h.sector_count) IN
            IF ~ChecksumMatches(esp_crc32_le(CrcSeed, EncBuffer(data)), h.crc32_data)
            THEN [none EXCEPT !.err = "ESP_ERR_INVALID_CRC", !.hdr = h]
            ELSE [none EXCEPT !.hdr = h, !.data = data]

\* the loop of jrnl_replay run without interruption on device d
RECURSIVE ReplayEntries(_, _, _)
ReplayEntries(r, m, cursor) ==
    IF ~ReplayLoopCond(cursor, m) THEN r
    ELSE LET f == ReplayFetch(r.d, m, cursor)
             ss == m.disk_sector_size
             addr == f.hdr.target_sector * ss
             size == ReplayEraseSize(f.hdr, ss)
         IN IF f.err # "ESP_OK" THEN [r EXCEPT !.err = f.err]
            ELSE IF ~DevInRange(addr, size) THEN [r EXCEPT !.err = "ESP_ERR_INVALID_ARG"]
            ELSE ReplayEntries(
                    [r EXCEPT !.d = jrnl_write_raw(jrnl_erase_range_raw(r.d, addr, size),
                                                   addr, f.data)],
                    m, cursor + (1 + f.hdr.sector_count))

\* jrnl_replay of a committed journal run from start to end on device d with
\* the master found on d: the device it leaves
ReplayRun(d) ==
    LET m == AsMaster(d[TotalSectors - 1])
        ss == m.disk_sector_size
        r == ReplayEntries([d |-> d, err |-> "ESP_OK"], m, 0)
        maddr == jrnl_get_target_disk_sector(m, m.store_size_sectors - 1) * ss
    IN IF r.err # "ESP_OK" THEN r.d
       ELSE jrnl_write_raw(jrnl_erase_range_raw(r.d, maddr, ss), maddr,
                           <<jrnl_reset_master(m, FALSE)>>)

\* esp_jrnl_stop(commit = true) run without interruption on device d with the
\* in-memory master m: the master is persisted as COMMIT, then replayed
CommitRun(d, m) ==
    ReplayRun([d EXCEPT ![TotalSectors - 1] =
                  [m EXCEPT !.status = ESP_JRNL_STATUS_TRANS_COMMIT]])

\* entry of jrnl_replay: take the lock and dispatch on the in-memory status.
\* An INIT status trips the assertion when assertions are compiled in, and
\* reaches the default branch of the switch when they are not.
jrnl_replay_enter ==
    /\ pc = "rp_enter"
    /\ LET i == loc.inst
           m == M(i)
       IN /\ ~instances[i].trans_lock
          /\ \/ /\ m.status = ESP_JRNL_STATUS_FS_INIT
                /\ pc' = "aborted"
                /\ UNCHANGED <<instances, loc, gh>>
             \/ /\ ReplayBranch(m.status) = "apply"
                /\ instances' = [instances EXCEPT ![i].trans_lock = TRUE]
                /\ loc' = [loc EXCEPT !.cursor = 0]
                /\ gh' = [gh EXCEPT !.replays = 1]
                /\ pc' = "rp_loop"
             \/ /\ ReplayBranch(m.status) = "clean"
                /\ instances' = [instances EXCEPT
                        ![i].trans_lock = TRUE,
                        ![i].master = jrnl_reset_master(m, FALSE)]
                /\ loc' = [loc EXCEPT !.cont = "replay"]
                /\ gh' = gh
                /\ pc' = "upd_erase"
             \/ /\ ReplayBranch(m.status) \in {"empty", "invalid"}
                /\ instances' = [instances EXCEPT ![i].trans_lock = TRUE]
                /\ loc' = [loc EXCEPT !.err =
                        IF ReplayBranch(m.status) = "empty"
                        THEN "ESP_OK" ELSE "ESP_ERR_INVALID_STATE"]
                /\ gh' = gh
                /\ pc' = "rp_exit"
    /\ UNCHANGED <<other, disk, s_jrnl_instance_ptrs, s_instances_lock, s_jrnl_handle,
                   call, ret, used>>
    /\ UNCHANGED vfs

\* while (oper_sector_index < next_free_sector): fetch the entry; after the
\* loop reset the master
jrnl_replay_loop ==
    /\ pc = "rp_loop"
    /\ LET i == loc.inst
           m == M(i)
           f == ReplayFetch(disk, m, loc.cursor)
       IN IF ReplayLoopCond(loc.cursor, m)
          THEN /\ loc' = [loc EXCEPT !.err = f.err, !.hdr = f.hdr, !.data = f.data]
               /\ pc' = IF f.err = "ESP_OK" THEN "rp_erase" ELSE "rp_exit"
               /\ UNCHANGED <<instances, gh>>
          ELSE /\ instances' = [instances EXCEPT ![i].master = jrnl_reset_master(m, FALSE)]
               /\ loc' = [loc EXCEPT !.cont = "replay"]
               /\ gh' = [gh EXCEPT !.applied = TRUE]
               /\ pc' = "upd_erase"
    /\ UNCHANGED <<other, disk, s_jrnl_instance_ptrs, s_instances_lock, s_jrnl_handle,
                   call, ret, used>>
    /\ UNCHANGED vfs

\* erase the target range of the entry
jrnl_replay_erase ==
    /\ pc = "rp_erase"
    /\ LET ss == M(loc.inst).disk_sector_size
           addr == loc.hdr.target_sector * ss
           size == ReplayEraseSize(loc.hdr, ss)
       IN IF DevInRange(addr, size)
          THEN /\ disk' = jrnl_erase_range_raw(disk, addr, size)
               /\ pc' = "rp_write"
               /\ loc' = loc
          ELSE /\ disk' = disk
               /\ pc' = "rp_exit"
               /\ loc' = [loc EXCEPT !.err = "ESP_ERR_INVALID_ARG"]
    /\ UNCHANGED <<other, s_jrnl_instance_ptrs, instances, s_instances_lock, s_jrnl_handle,
                   call, ret, gh, used>>
    /\ UNCHANGED vfs

\* write the journaled data to the target and advance the cursor
jrnl_replay_write ==
    /\ pc = "rp_write"
    /\ LET ss == M(loc.inst).disk_sector_size
           addr == loc.hdr.target_sector * ss
       IN disk' = jrnl_write_raw(disk, addr, loc.data)
    /\ loc' = [loc EXCEPT !.cursor = @ + (1 + loc.hdr.sector_count),
                          !.hdr = ZeroHeader, !.data = <<>>]
    /\ pc' = "rp_loop"
    /\ UNCHANGED <<other, s_jrnl_instance_ptrs, instances, s_instances_lock, s_jrnl_handle,
                   call, ret, gh, used>>
    /\ UNCHANGED vfs

\* free the buffers, release the lock and return err to the caller
jrnl_replay_exit ==
    /\ pc = "rp_exit"
    /\ instances' = [instances EXCEPT ![loc.inst].trans_lock = FALSE]
    /\ IF loc.rcaller = "mount"
       THEN /\ pc' = IF loc.err = "ESP_OK" THEN "mount_reset" ELSE "mount_exit"
            /\ ret' = ret
       ELSE Return(loc.err)
    /\ loc' = [loc EXCEPT !.hdr = ZeroHeader, !.data = <<>>]
    /\ UNCHANGED <<other, disk, s_jrnl_instance_ptrs, s_instances_lock, s_jrnl_handle,
                   call, gh, used>>
    /\ UNCHANGED vfs

\* ------------------------------------------------------------ esp_jrnl_start
esp_jrnl_start ==
    /\ pc = "idle"
    /\ s_jrnl_handle # JRNL_INVALID_HANDLE
    /\ used.trans < MaxTrans
    /\ LET h == s_jrnl_handle
           e == jrnl_check_handle(h)
       IN /\ call' = NewCall("start", h)
          /\ IF e # "ESP_OK"
             THEN /\ Return(e)
                  /\ UNCHANGED <<instances, loc, used, gh>>
             ELSE /\ ~instances[h].trans_lock
                  /\ IF StartAllowed(M(h).status)
                     THEN IF M(h).next_free_sector # 0
                          THEN /\ pc' = "aborted"     \* the assertion fails
                               /\ UNCHANGED <<instances, loc, ret, used, gh>>
                          ELSE /\ instances' = [instances EXCEPT
                                     ![h].trans_lock = TRUE,
                                     ![h].master.status = ESP_JRNL_STATUS_TRANS_OPEN]
                               /\ loc' = [NoLoc EXCEPT !.inst = h, !.cont = "start"]
                               /\ pc' = "upd_erase"
                               /\ ret' = ret
                               /\ used' = [used EXCEPT !.trans = @ + 1]
                               /\ gh' = [gh EXCEPT !.txn = "open",
                                                   !.fsAtBegin = FsImage(disk),
                                                   !.txWrites = <<>>]
                     ELSE /\ Return("ESP_ERR_INVALID_STATE")
                          /\ UNCHANGED <<instances, loc, used, gh>>
    /\ UNCHANGED <<other, disk, s_jrnl_instance_ptrs, s_instances_lock, s_jrnl_handle>>
    /\ UNCHANGED vfs

\* ------------------------------------------------------------- esp_jrnl_stop
esp_jrnl_stop(commit) ==
    /\ pc = "idle"
    /\ s_jrnl_handle # JRNL_INVALID_HANDLE
    /\ LET h == s_jrnl_handle
           e == jrnl_check_handle(h)
       IN /\ call' = [NewCall("stop", h) EXCEPT !.commit = commit]
          /\ IF e # "ESP_OK"
             THEN /\ Return(e)
                  /\ UNCHANGED <<instances, loc>>
             ELSE IF ~commit
             THEN /\ ~instances[h].trans_lock
                  /\ instances' = [instances EXCEPT
                        ![h].trans_lock = TRUE,
                        ![h].master = jrnl_reset_master(M(h), FALSE)]
                  /\ loc' = [NoLoc EXCEPT !.inst = h, !.cont = "cancel"]
                  /\ pc' = "upd_erase"
                  /\ ret' = ret
             ELSE IF CommitAllowed(M(h).status)
             THEN /\ ~instances[h].trans_lock
                  /\ instances' = [instances EXCEPT
                        ![h].trans_lock = TRUE,
                        ![h].master.status = ESP_JRNL_STATUS_TRANS_COMMIT]
                  /\ loc' = [NoLoc EXCEPT !.inst = h, !.cont = "commit"]
                  /\ pc' = "upd_erase"
                  /\ ret' = ret
             ELSE /\ Return("ESP_ERR_INVALID_STATE")
                  /\ UNCHANGED <<instances, loc>>
    /\ UNCHANGED <<other, disk, s_jrnl_instance_ptrs, s_instances_lock, s_jrnl_handle,
                   gh, used>>
    /\ UNCHANGED vfs

\* ---------------------------------------------------- esp_jrnl_set_direct_io
esp_jrnl_set_direct_io(direct_access) ==
    /\ pc = "idle"
    /\ s_jrnl_handle # JRNL_INVALID_HANDLE
    /\ LET h == s_jrnl_handle
           e == jrnl_check_handle(h)
       IN /\ call' = [NewCall("set_direct_io", h) EXCEPT !.on = direct_access]
          /\ IF e # "ESP_OK"
             THEN /\ Return(e)
                  /\ UNCHANGED <<instances, loc>>
             ELSE /\ ~instances[h].trans_lock
                  /\ IF ~DirectIoAllowed(M(h).status)
                     THEN /\ Return("ESP_ERR_INVALID_STATE")
                          /\ UNCHANGED <<instances, loc>>
                     ELSE /\ instances' = [instances EXCEPT
                                ![h].trans_lock = TRUE,
                                ![h].master.status =
                                    IF direct_access THEN ESP_JRNL_STATUS_FS_DIRECT
                                    ELSE ESP_JRNL_STATUS_TRANS_READY]
                          /\ loc' = [NoLoc EXCEPT !.inst = h, !.cont = "dio"]
                          /\ pc' = "upd_erase"
                          /\ ret' = ret
    /\ UNCHANGED <<other, disk, s_jrnl_instance_ptrs, s_instances_lock, s_jrnl_handle,
                   gh, used>>
    /\ UNCHANGED vfs

\* ------------------------------------------------------------ esp_jrnl_write
\* the target ranges the file system asks for lie in its own area
WriteArgs ==
    { a \in [sector : FsArea, count : 1 .. MaxCount, v : 1 .. NumPayloads] :
        a.sector + a.count <= FsSectors }

esp_jrnl_write(sector, count, v) ==
    /\ pc = "idle"
    /\ s_jrnl_handle # JRNL_INVALID_HANDLE
    /\ (/\ jrnl_check_handle(s_jrnl_handle) = "ESP_OK"
        /\ WritePath(M(s_jrnl_handle).status) = "direct") => used.direct < MaxDirect
    /\ LET h == s_jrnl_handle
           e == jrnl_check_handle(h)
       IN /\ call' = [NewCall("write", h) EXCEPT
                        !.sector = sector, !.count = count, !.v = v]
          /\ IF e # "ESP_OK"
             THEN /\ Return(e)
                  /\ UNCHANGED <<instances, loc, used>>
             ELSE IF WritePath(M(h).status) = "direct"
             THEN /\ pc' = "dw_erase"
                  /\ loc' = [NoLoc EXCEPT !.inst = h]
                  /\ used' = [used EXCEPT !.direct = @ + 1]
                  /\ UNCHANGED <<instances, ret>>
             ELSE IF WritePath(M(h).status) = "journal"
             THEN IF StoreHasRoom(M(h), count)
                  THEN /\ ~instances[h].trans_lock
                       /\ instances' = [instances EXCEPT ![h].trans_lock = TRUE]
                       /\ loc' = [NoLoc EXCEPT !.inst = h, !.cont = "write",
                                    !.hdr = MakeOperHeader(sector, count, Payload(v, count))]
                       \* esp_crc32_le reads count * sector_size bytes of buff:
                       \* no buffer of a 32-bit address space holds 2^31
                       \* sectors, the read runs past the end of buff
                       /\ \/ pc' = "jw_erase"
                          \/ count < 0 /\ pc' = "aborted"
                       /\ UNCHANGED <<ret, used>>
                  ELSE /\ Return("ESP_ERR_NO_MEM")
                       /\ UNCHANGED <<instances, loc, used>>
             ELSE /\ Return("ESP_ERR_INVALID_STATE")
                  /\ UNCHANGED <<instances, loc, used>>
    /\ UNCHANGED <<other, disk, s_jrnl_instance_ptrs, s_instances_lock, s_jrnl_handle, gh>>
    /\ UNCHANGED vfs

\* direct write: erase the target range ...
esp_jrnl_write_direct_erase ==
    /\ pc = "dw_erase"
    /\ LET ss == M(loc.inst).disk_sector_size IN
       IF DevInRange(call.sector * ss, call.count * ss)
       THEN /\ disk' = jrnl_erase_range_raw(disk, call.sector * ss, call.count * ss)
            /\ pc' = "dw_write"
            /\ ret' = ret
       ELSE /\ disk' = disk
            /\ Return("ESP_ERR_INVALID_ARG")
    /\ UNCHANGED <<other, s_jrnl_instance_ptrs, instances, s_instances_lock, s_jrnl_handle,
                   call, loc, gh, used>>
    /\ UNCHANGED vfs

\* ... then write the buffer there
esp_jrnl_write_direct_write ==
    /\ pc = "dw_write"
    /\ LET ss == M(loc.inst).disk_sector_size IN
       disk' = jrnl_write_raw(disk, call.sector * ss, Payload(call.v, call.count))
    /\ gh' = [gh EXCEPT !.image =
                IF gh.clean
                THEN Overlay(@, [sector |-> call.sector, count |-> call.count, v |-> call.v])
                ELSE @]
    /\ Return("ESP_OK")
    /\ UNCHANGED <<other, s_jrnl_instance_ptrs, instances, s_instances_lock, s_jrnl_handle,
                   call, loc, used>>
    /\ UNCHANGED vfs

\* journaled write: erase 1 + count sectors of the store at next_free_sector
esp_jrnl_write_store_erase ==
    /\ pc = "jw_erase"
    /\ LET m == M(loc.inst)
           ss == m.disk_sector_size
           oper_addr == jrnl_get_target_disk_sector(m, m.next_free_sector) * ss
           oper_size == (call.count + 1) * ss
       IN IF DevInRange(oper_addr, oper_size)
          THEN /\ disk' = jrnl_erase_range_raw(disk, oper_addr, oper_size)
               /\ pc' = "jw_hdr"
               /\ UNCHANGED <<instances, ret>>
          ELSE /\ disk' = disk
               /\ instances' = [instances EXCEPT ![loc.inst].trans_lock = FALSE]
               /\ Return("ESP_ERR_INVALID_ARG")
    /\ UNCHANGED <<other, s_jrnl_instance_ptrs, s_instances_lock, s_jrnl_handle,
                   call, loc, gh, used>>
    /\ UNCHANGED vfs

\* write the header sector
esp_jrnl_write_store_header ==
    /\ pc = "jw_hdr"
    /\ LET m == M(loc.inst)
           ss == m.disk_sector_size
           oper_addr == jrnl_get_target_disk_sector(m, m.next_free_sector) * ss
       IN disk' = jrnl_write_raw(disk, oper_addr, <<loc.hdr>>)
    /\ pc' = "jw_data"
    /\ UNCHANGED <<other, s_jrnl_instance_ptrs, instances, s_instances_lock, s_jrnl_handle,
                   call, loc, ret, gh, used>>
    /\ UNCHANGED vfs

\* write the data sectors, then advance next_free_sector in memory
esp_jrnl_write_store_data ==
    /\ pc = "jw_data"
    /\ LET m == M(loc.inst)
           ss == m.disk_sector_size
           oper_addr == jrnl_get_target_disk_sector(m, m.next_free_sector) * ss
           oper_size == (call.count + 1) * ss
       IN IF DevInRange(oper_addr + ss, oper_size - ss)
          THEN /\ disk' = jrnl_write_raw(disk, oper_addr + ss, Payload(call.v, call.count))
               /\ instances' = [instances EXCEPT
                     ![loc.inst].master.next_free_sector = @ + (1 + call.count)]
               /\ pc' = "upd_erase"
               /\ ret' = ret
          ELSE /\ disk' = disk
               /\ instances' = [instances EXCEPT ![loc.inst].trans_lock = FALSE]
               /\ Return("ESP_ERR_INVALID_ARG")
    /\ UNCHANGED <<other, s_jrnl_instance_ptrs, s_instances_lock, s_jrnl_handle,
                   call, loc, gh, used>>
    /\ UNCHANGED vfs

\* ------------------------------------------------------------- esp_jrnl_read
esp_jrnl_read(sector, count) ==
    /\ pc = "idle"
    /\ s_jrnl_handle # JRNL_INVALID_HANDLE
    /\ LET h == s_jrnl_handle
           e == jrnl_check_handle(h)
       IN /\ call' = [NewCall("read", h) EXCEPT !.sector = sector, !.count = count]
          /\ IF e # "ESP_OK"
             THEN /\ Return(e)
                  /\ loc' = loc
             ELSE LET r == esp_jrnl_read_result(M(h), disk, sector, count) IN
                  /\ Return(r.err)
                  /\ loc' = [NoLoc EXCEPT !.inst = h, !.data = r.data,
                                          !.devread = r.devread]
    /\ UNCHANGED <<other, disk, s_jrnl_instance_ptrs, instances, s_instances_lock,
                   s_jrnl_handle, gh, used>>
    /\ UNCHANGED vfs

\* ---------------------------------------------------------- esp_jrnl_unmount
esp_jrnl_unmount ==
    /\ pc = "idle"
    /\ s_jrnl_handle # JRNL_INVALID_HANDLE
    /\ other.pc = "idle"        \* no thread is inside a call on the instance
    /\ ~s_instances_lock
    /\ LET h == s_jrnl_handle
           e == jrnl_check_handle(h)
       IN /\ call' = NewCall("unmount", h)
          /\ IF e # "ESP_OK"
             THEN /\ s_instances_lock' = TRUE      \* returns with the lock held
                  /\ Return(e)
                  /\ UNCHANGED <<instances, s_jrnl_instance_ptrs, s_jrnl_handle, gh>>
             ELSE /\ instances' = [instances EXCEPT ![h] = FreeInstance]
                  /\ s_jrnl_instance_ptrs' = [s_jrnl_instance_ptrs EXCEPT ![h] = NULL]
                  /\ s_jrnl_handle' = JRNL_INVALID_HANDLE
                  /\ s_instances_lock' = FALSE
                  /\ gh' = [gh EXCEPT !.remount = FALSE]
                  /\ Return("ESP_OK")
    /\ UNCHANGED <<other, disk, loc, used>>
    /\ UNCHANGED vfs

\* ------------------------------------------------------------------- getters
\* variant: the size of the store is not subtracted
FsPartSectorCountOfVolume(m) ==
    m.volume_size \div m.disk_sector_size

\* the value esp_jrnl_get_sector_count stores in *fs_part_sector_count
FsPartSectorCount(m) ==
    m.volume_size \div m.disk_sector_size - m.store_size_sectors

esp_jrnl_get_sector_count ==
    /\ pc = "idle"
    /\ s_jrnl_handle # JRNL_INVALID_HANDLE
    /\ LET h == s_jrnl_handle
           e == jrnl_check_handle(h)
       IN /\ call' = NewCall("get_sector_count", h)
          /\ IF e # "ESP_OK"
             THEN /\ Return(e)
                  /\ loc' = loc
             ELSE /\ Return("ESP_OK")
                  /\ loc' = [NoLoc EXCEPT !.inst = h,
                                !.fs_part_sector_count = FsPartSectorCount(M(h))]
    /\ UNCHANGED <<other, disk, s_jrnl_instance_ptrs, instances, s_instances_lock,
                   s_jrnl_handle, gh, used>>
    /\ UNCHANGED vfs

esp_jrnl_get_sector_size ==
    /\ pc = "idle"
    /\ s_jrnl_handle # JRNL_INVALID_HANDLE
    /\ LET h == s_jrnl_handle
           e == jrnl_check_handle(h)
       IN /\ call' = NewCall("get_sector_size", h)
          /\ IF e # "ESP_OK"
             THEN /\ Return(e)
                  /\ loc' = loc
             ELSE /\ Return("ESP_OK")
                  /\ loc' = [NoLoc EXCEPT !.inst = h,
                                !.sector_size = M(h).disk_sector_size]
    /\ UNCHANGED <<other, disk, s_jrnl_instance_ptrs, instances, s_instances_lock,
                   s_jrnl_handle, gh, used>>
    /\ UNCHANGED vfs

\* ------------------------------------------------------- handles of the calls
\* the handle values an application passes again later: no handle, the first
\* two and the last slot of the table whether occupied or not, the first value
\* beyond the table
HandleValues ==
    {JRNL_INVALID_HANDLE, 0, 1, JRNL_MAX_HANDLES - 1, JRNL_MAX_HANDLES}

\* the application goes on with another handle value: one it holds, one it
\* held before an unmount, one it never got, or none (to mount once more)
UseHandle(handle) ==
    /\ pc = "idle"
    /\ handle # s_jrnl_handle
    /\ s_jrnl_handle' = handle
    /\ UNCHANGED <<disk, s_jrnl_instance_ptrs, instances, s_instances_lock,
                   pc, call, loc, ret, gh, used, other>>
    /\ UNCHANGED vfs

\* the public operations that take a handle
HandleOps ==
    {"unmount", "start", "stop", "set_direct_io", "write", "read",
     "get_diskio_handle", "get_sector_count", "get_sector_size"}

\* a public operation called with JRNL_INVALID_HANDLE: jrnl_check_handle
\* returns ESP_ERR_INVALID_STATE at its first comparison. esp_jrnl_unmount has
\* taken s_instances_lock before and returns without releasing it.
esp_jrnl_call_no_handle(op) ==
    /\ pc = "idle"
    /\ op = "unmount" => ~s_instances_lock
    /\ call' = NewCall(op, JRNL_INVALID_HANDLE)
    /\ Return(jrnl_check_handle(JRNL_INVALID_HANDLE))
    /\ s_instances_lock' = (s_instances_lock \/ op = "unmount")
    /\ UNCHANGED <<disk, s_jrnl_instance_ptrs, instances, s_jrnl_handle,
                   loc, gh, used, other>>
    /\ UNCHANGED vfs

\* negative handle values other than JRNL_INVALID_HANDLE
BelowTable == {JRNL_INVALID_HANDLE - 1, 0 - JRNL_MAX_HANDLES}

\* a public operation called with a negative handle other than
\* JRNL_INVALID_HANDLE: jrnl_check_handle passes its two comparisons and reads
\* s_jrnl_instance_ptrs[handle], a word in front of the table. If the word is
\* zero the call returns ESP_ERR_NOT_FOUND; if not, the call goes on with a
\* pointer that designates no instance. esp_jrnl_unmount has taken
\* s_instances_lock before and returns without releasing it.
esp_jrnl_call_below_table(op, handle) ==
    /\ pc = "idle"
    /\ op = "unmount" => ~s_instances_lock
    /\ call' = NewCall(op, handle)
    /\ \/ /\ Return("ESP_ERR_NOT_FOUND")
          /\ s_instances_lock' = (s_instances_lock \/ op = "unmount")
       \/ /\ pc' = "aborted"
          /\ UNCHANGED <<ret, s_instances_lock>>
    /\ UNCHANGED <<disk, s_jrnl_instance_ptrs, instances, s_jrnl_handle,
                   loc, gh, used, other>>
    /\ UNCHANGED vfs

\* ------------------------------------------------ a second application thread
\* Calls of a second thread on the instance of the first one. What such a call
\* does before _lock_acquire is a step of its own; what it does from
\* _lock_acquire to _lock_release is one step, as the first thread cannot take
\* the lock meanwhile.

\* esp_jrnl_write up to _lock_acquire: status and capacity are checked
esp_jrnl_write_other_check(sector, count, v) ==
    /\ used.other < MaxOther
    /\ other.pc = "idle"
    /\ jrnl_check_handle(s_jrnl_handle) = "ESP_OK"
    /\ WritePath(M(s_jrnl_handle).status) = "journal"
    /\ StoreHasRoom(M(s_jrnl_handle), count)
    /\ other' = [pc |-> "locking", sector |-> sector, count |-> count, v |-> v]
    /\ used' = [used EXCEPT !.other = @ + 1]
    /\ UNCHANGED <<disk, s_jrnl_instance_ptrs, instances, s_instances_lock,
                   s_jrnl_handle, pc, call, loc, ret, gh>>
    /\ UNCHANGED vfs

\* ... and from _lock_acquire on: erase 1 + count sectors at next_free_sector,
\* write header and data, advance next_free_sector, update the master
esp_jrnl_write_other_append ==
    /\ other.pc = "locking"
    /\ jrnl_check_handle(s_jrnl_handle) = "ESP_OK"
    /\ ~instances[s_jrnl_handle].trans_lock
    /\ LET h == s_jrnl_handle
           m == M(h)
           ss == m.disk_sector_size
           buff == Payload(other.v, other.count)
           oper_addr == jrnl_get_target_disk_sector(m, m.next_free_sector) * ss
           oper_size == (other.count + 1) * ss
           d1 == jrnl_erase_range_raw(disk, oper_addr, oper_size)
           d2 == jrnl_write_raw(d1, oper_addr,
                                <<MakeOperHeader(other.sector, other.count, buff)>>)
           d3 == jrnl_write_raw(d2, oper_addr + ss, buff)
           m2 == [m EXCEPT !.next_free_sector = @ + (1 + other.count)]
           maddr == jrnl_get_target_disk_sector(m2, m2.store_size_sectors - 1) * ss
       IN IF DevInRange(oper_addr, oper_size)
          THEN /\ disk' = jrnl_write_raw(jrnl_erase_range_raw(d3, maddr, ss),
                                         maddr, <<m2>>)
               /\ instances' = [instances EXCEPT ![h].master = m2]
          ELSE UNCHANGED <<disk, instances>>    \* the device refuses the erase
    /\ other' = OtherIdle
    /\ UNCHANGED <<s_jrnl_instance_ptrs, s_instances_lock, s_jrnl_handle,
                   pc, call, loc, ret, gh, used>>
    /\ UNCHANGED vfs

\* esp_jrnl_stop(handle, false): reset the master under the lock
esp_jrnl_stop_other_cancel ==
    /\ used.other < MaxOther
    /\ other.pc = "idle"
    /\ jrnl_check_handle(s_jrnl_handle) = "ESP_OK"
    /\ ~instances[s_jrnl_handle].trans_lock
    /\ LET h == s_jrnl_handle
           m2 == jrnl_reset_master(M(h), FALSE)
           ss == m2.disk_sector_size
           maddr == jrnl_get_target_disk_sector(m2, m2.store_size_sectors - 1) * ss
       IN /\ disk' = jrnl_write_raw(jrnl_erase_range_raw(disk, maddr, ss),
                                    maddr, <<m2>>)
          /\ instances' = [instances EXCEPT ![h].master = m2]
    /\ used' = [used EXCEPT !.other = @ + 1]
    /\ UNCHANGED <<s_jrnl_instance_ptrs, s_instances_lock, s_jrnl_handle,
                   pc, call, loc, ret, gh, other>>
    /\ UNCHANGED vfs

\* the steps of a call that read or write the instance through inst_ptr
InstanceSteps ==
    {"upd_erase", "upd_write", "rp_enter", "rp_loop", "rp_erase", "rp_write", "rp_exit",
     "jw_erase", "jw_hdr", "jw_data", "dw_erase", "dw_write"}

\* esp_jrnl_unmount(handle) of the second thread while the first one is inside
\* a call on the instance: s_instances_lock is free, the handle passes the
\* check, the instance is freed and its slot cleared. The freed memory keeps
\* its content until it is used again.
esp_jrnl_unmount_other ==
    /\ used.other < MaxOther
    /\ other.pc = "idle"
    /\ pc \in InstanceSteps
    /\ ~s_instances_lock
    /\ jrnl_check_handle(s_jrnl_handle) = "ESP_OK"
    /\ instances' = [instances EXCEPT ![s_jrnl_handle].alloc = FALSE]
    /\ s_jrnl_instance_ptrs' = [s_jrnl_instance_ptrs EXCEPT ![s_jrnl_handle] = NULL]
    /\ used' = [used EXCEPT !.other = @ + 1]
    /\ UNCHANGED <<disk, s_instances_lock, s_jrnl_handle, pc, call, loc, ret, gh, other>>
    /\ UNCHANGED vfs

\* a step of the first thread on an instance that has been freed: besides
\* going on with what the freed memory still holds, the access may fault
InstanceFault ==
    /\ pc \in InstanceSteps
    /\ ~instances[loc.inst].alloc
    /\ pc' = "aborted"
    /\ UNCHANGED <<disk, s_jrnl_instance_ptrs, instances, s_instances_lock, s_jrnl_handle,
                   call, loc, ret, gh, used, other>>
    /\ UNCHANGED vfs

\* ------------------------------------------------------------- environment
\* the call has returned; the application is free to issue the next one
ReturnToCaller ==
    /\ pc = "ret"
    /\ pc' = "idle"
    /\ call' = NoCall
    /\ loc' = NoLoc
    /\ ret' = "NONE"
    /\ gh' = IF gh.txn = "none"
             THEN [gh EXCEPT !.replays = 0, !.fsAtBegin = FsImage(InitDisk),
                             !.txWrites = <<>>, !.applied = FALSE,
                             !.committed = InitDisk]
             ELSE [gh EXCEPT !.replays = 0]
    /\ UNCHANGED <<other, disk, s_jrnl_instance_ptrs, instances, s_instances_lock,
                   s_jrnl_handle, used>>
    /\ UNCHANGED vfs

\* power loss or reset: the device keeps its content, the memory is lost
Crash ==
    /\ used.crashes < MaxCrashes
    /\ pc # "idle" \/ s_jrnl_handle # JRNL_INVALID_HANDLE
    /\ used' = [used EXCEPT !.crashes = @ + 1]
    /\ s_jrnl_instance_ptrs' = [h \in Handles |-> NULL]
    /\ instances' = [h \in Handles |-> FreeInstance]
    /\ s_instances_lock' = FALSE
    /\ s_jrnl_handle' = JRNL_INVALID_HANDLE
    /\ pc' = "idle"
    /\ call' = NoCall
    /\ loc' = NoLoc
    /\ ret' = "NONE"
    /\ gh' = [gh EXCEPT !.clean = FALSE, !.image = FsImage(InitDisk),
                        !.remount = FALSE, !.replays = 0]
    /\ other' = OtherIdle
    /\ UNCHANGED disk
    /\ UNCHANGED vfs

\* jrnl_replay of a COMMIT master: calloc of the header buffer returns NULL and
\* the function returns ESP_ERR_NO_MEM at once, after it has taken trans_lock
jrnl_replay_header_no_mem ==
    /\ pc = "rp_enter"
    /\ used.allocs < MaxAllocFails
    /\ ~instances[loc.inst].trans_lock
    /\ ReplayBranch(M(loc.inst).status) = "apply"
    /\ instances' = [instances EXCEPT ![loc.inst].trans_lock = TRUE]
    /\ loc' = [loc EXCEPT !.err = "ESP_ERR_NO_MEM"]
    /\ IF loc.rcaller = "mount"
       THEN pc' = "mount_exit" /\ ret' = ret
       ELSE Return("ESP_ERR_NO_MEM")
    /\ used' = [used EXCEPT !.allocs = @ + 1]
    /\ UNCHANGED <<other, disk, s_jrnl_instance_ptrs, s_instances_lock, s_jrnl_handle,
                   call, gh>>
    /\ UNCHANGED vfs

\* jrnl_replay: calloc of the data buffer of an entry returns NULL and the loop
\* is left with ESP_ERR_NO_MEM
jrnl_replay_data_no_mem ==
    /\ pc = "rp_loop"
    /\ used.allocs < MaxAllocFails
    /\ ReplayLoopCond(loc.cursor, M(loc.inst))
    /\ ReplayFetch(disk, M(loc.inst), loc.cursor).err = "ESP_OK"
    /\ loc' = [loc EXCEPT !.err = "ESP_ERR_NO_MEM"]
    /\ pc' = "rp_exit"
    /\ used' = [used EXCEPT !.allocs = @ + 1]
    /\ UNCHANGED <<other, disk, s_jrnl_instance_ptrs, instances, s_instances_lock,
                   s_jrnl_handle, call, ret, gh>>
    /\ UNCHANGED vfs

\* a sector of the store that holds a header or data of an entry loses its
\* content on the medium
StoreSectorDecays(s) ==
    /\ used.decays < MaxDecays
    /\ disk[s].k \in {"hdr", "data"}
    /\ disk' = [disk EXCEPT ![s] = Garbled]
    /\ used' = [used EXCEPT !.decays = @ + 1]
    /\ UNCHANGED <<s_jrnl_instance_ptrs, instances, s_instances_lock, s_jrnl_handle,
                   pc, call, loc, ret, gh, other>>
    /\ UNCHANGED vfs

\* a device operation of the step the thread is at fails and changes nothing
DeviceSteps ==
    {"upd_erase", "upd_write", "rp_erase", "rp_write", "jw_erase", "jw_hdr",
     "jw_data", "dw_erase", "dw_write", "mount_read"}

DevError ==
    /\ used.faults < MaxFaults
    /\ \/ pc \in DeviceSteps
       \/ pc = "rp_loop" /\ ReplayLoopCond(loc.cursor, M(loc.inst))
    /\ used' = [used EXCEPT !.faults = @ + 1]
    /\ CASE pc \in {"upd_erase", "upd_write"} -> UpdDone(loc.cont, "ESP_FAIL")
         [] pc \in {"rp_loop", "rp_erase", "rp_write"} ->
                /\ pc' = "rp_exit"
                /\ loc' = [loc EXCEPT !.err = "ESP_FAIL"]
                /\ UNCHANGED <<instances, ret, s_jrnl_instance_ptrs, s_instances_lock,
                               s_jrnl_handle>>
         [] pc \in {"jw_erase", "jw_hdr", "jw_data"} ->
                /\ instances' = [instances EXCEPT ![loc.inst].trans_lock = FALSE]
                /\ Return("ESP_FAIL")
                /\ UNCHANGED <<loc, s_jrnl_instance_ptrs, s_instances_lock, s_jrnl_handle>>
         [] pc \in {"dw_erase", "dw_write"} ->
                /\ Return("ESP_FAIL")
                /\ UNCHANGED <<instances, loc, s_jrnl_instance_ptrs, s_instances_lock,
                               s_jrnl_handle>>
         [] pc = "mount_read" ->
                /\ pc' = "mount_exit"
                /\ loc' = [loc EXCEPT !.err = "ESP_FAIL"]
                /\ UNCHANGED <<instances, ret, s_jrnl_instance_ptrs, s_instances_lock,
                               s_jrnl_handle>>
    /\ UNCHANGED <<other, disk, call, gh>>
    /\ UNCHANGED vfs

\* ----------------------------------------------------------- specifications
Calls ==
    \/ \E cfg \in Configs : esp_jrnl_mount(cfg)
    \/ esp_jrnl_unmount
    \/ esp_jrnl_start
    \/ \E commit \in BOOLEAN : esp_jrnl_stop(commit)
    \/ \E on \in BOOLEAN : esp_jrnl_set_direct_io(on)
    \/ \E a \in WriteArgs : esp_jrnl_write(a.sector, a.count, a.v)
    \/ \E s \in FsArea : esp_jrnl_read(s, 1)

Steps ==
    \/ esp_jrnl_mount_read
    \/ esp_jrnl_mount_reset
    \/ esp_jrnl_mount_exit
    \/ jrnl_update_master_erase
    \/ jrnl_update_master_write
    \/ jrnl_replay_enter
    \/ jrnl_replay_loop
    \/ jrnl_replay_erase
    \/ jrnl_replay_write
    \/ jrnl_replay_exit
    \/ esp_jrnl_write_direct_erase
    \/ esp_jrnl_write_direct_write
    \/ esp_jrnl_write_store_erase
    \/ esp_jrnl_write_store_header
    \/ esp_jrnl_write_store_data
    \/ ReturnToCaller

Next == Calls \/ Steps \/ Crash

Spec == Init /\ [][Next]_vars

\* the same program on a device whose operations may fail
NextFault == Calls \/ Steps \/ DevError

SpecFault == Init /\ [][NextFault]_vars

\* the uint32_t value 2^32 - k
U32Neg(k) == 0 - k

\* read requests over the whole width of the uint32_t parameters: a start in
\* the file-system area or on the first store sector, a count that is small
\* or within FsSectors of 2^32
ReadArgs ==
    [sector : 0 .. FsSectors,
     count : (1 .. MaxCount) \cup { U32Neg(k) : k \in 1 .. FsSectors }]

\* the program with read requests of any width, on a device without faults
NextRead ==
    \/ Calls
    \/ Steps
    \/ \E a \in ReadArgs : esp_jrnl_read(a.sector, a.count)

SpecRead == Init /\ [][NextRead]_vars

\* write requests whose target range is not inside the file-system area: it
\* straddles the start of the store, lies in the store, or is the master sector
StoreTargetArgs ==
    [sector : {FsSectors - 1, FsSectors, TotalSectors - 1},
     count : 1 .. MaxCount, v : 1 .. NumPayloads]

\* the program with write requests of any target, on a device without faults
NextWide ==
    \/ Calls
    \/ Steps
    \/ \E a \in StoreTargetArgs : esp_jrnl_write(a.sector, a.count, a.v)

SpecWide == Init /\ [][NextWide]_vars

\* configurations that keep an existing store but give it another size
ResizedConfigs ==
    { c \in [overwrite_existing : {FALSE}, replay_journal_after_mount : BOOLEAN,
             force_fs_format : {FALSE}, store_size_sectors : {StoreSizeSectors - 1}] :
        TRUE }

\* write calls whose count is one of the three largest uint32_t values
WrapArgs == [sector : {0}, count : {U32Neg(1), U32Neg(2), U32Neg(3)},
             v : 1 .. NumPayloads]

\* the program with such calls, on a device without faults
NextWrap ==
    \/ Calls
    \/ Steps
    \/ \E a \in WrapArgs : esp_jrnl_write(a.sector, a.count, a.v)

SpecWrap == Init /\ [][NextWrap]_vars

\* ------------------------------------------------ the FAT/VFS glue
\* esp_vfs_fat_spiflash_mount_jrnl and esp_vfs_fat_spiflash_unmount_jrnl. The
\* jrnl_handle_temp of the mount is s_jrnl_handle, the handle the calls of the
\* journal are made with. The calls the glue makes into the journal
\* (esp_jrnl_mount, esp_jrnl_write for f_mkfs, esp_jrnl_set_direct_io,
\* esp_jrnl_unmount) are the actions above, taken while the glue waits at the
\* position of that call; the content of the FAT volume is not represented.
JrnlVars == <<disk, s_jrnl_instance_ptrs, instances, s_instances_lock, s_jrnl_handle,
              pc, call, loc, ret, gh, used, other>>

\* the positions at which the glue waits for a call into the journal to return
VfsWaits == {"jrnl_mount", "format", "set_direct_io", "jrnl_unmount"}

\* esp_vfs_fat_spiflash_mount_jrnl up to wl_mount: the partition is looked up,
\* a drive number taken, and the wear-levelling layer mounted
esp_vfs_fat_spiflash_mount_jrnl(cfg) ==
    /\ vfs.pc = "idle" /\ pc = "idle"
    /\ vfs.calls < MaxVfsMounts
    /\ s_jrnl_handle = JRNL_INVALID_HANDLE
    /\ \/ vfs' = [vfs EXCEPT !.op = "mount", !.cfg = cfg, !.calls = @ + 1,
                             !.result = "ESP_ERR_NOT_FOUND", !.pc = "done"]
       \/ vfs' = [vfs EXCEPT !.op = "mount", !.cfg = cfg, !.calls = @ + 1,
                             !.result = "ESP_FAIL", !.pc = "cleanup"]
       \/ vfs' = [vfs EXCEPT !.op = "mount", !.cfg = cfg, !.calls = @ + 1,
                             !.wl = @ + 1, !.pc = "jrnl_mount"]
    /\ UNCHANGED JrnlVars

\* esp_jrnl_mount has returned
esp_vfs_fat_spiflash_mount_jrnl_mounted ==
    /\ vfs.pc = "jrnl_mount" /\ pc = "ret" /\ call.op = "mount"
    /\ vfs' = IF ret = "ESP_OK"
              THEN [vfs EXCEPT !.pc = "register"]
              ELSE [vfs EXCEPT !.result = ret, !.pc = "cleanup"]
    /\ UNCHANGED JrnlVars

\* steps 3 to 6: ff_diskio_register_jrnl (it accepts the drive number that
\* ff_diskio_get_drive gave), vfs_fat_register_cfg_jrnl,
\* vfs_fat_register_pdrv_jrnl_handle, f_mount; each of the last three may
\* fail, and f_mount may find no file system and ask for f_mkfs
esp_vfs_fat_spiflash_mount_jrnl_register ==
    /\ vfs.pc = "register" /\ pc = "idle"
    /\ \/ vfs' = [vfs EXCEPT !.diskio = TRUE,
                             !.result = "ESP_ERR_NO_MEM", !.pc = "cleanup"]
       \/ vfs' = [vfs EXCEPT !.diskio = TRUE, !.path = TRUE,
                             !.result = "ESP_ERR_INVALID_STATE", !.pc = "cleanup"]
       \/ vfs' = [vfs EXCEPT !.diskio = TRUE, !.path = TRUE, !.pdrvh = TRUE,
                             !.result = "ESP_FAIL", !.pc = "cleanup"]
       \/ vfs' = [vfs EXCEPT !.diskio = TRUE, !.path = TRUE, !.pdrvh = TRUE,
                             !.pc = "format"]
       \/ /\ ~vfs.cfg.force_fs_format
          /\ vfs' = [vfs EXCEPT !.diskio = TRUE, !.path = TRUE, !.pdrvh = TRUE,
                                !.fmounted = TRUE, !.pc = "set_direct_io"]
    /\ UNCHANGED JrnlVars

\* f_mkfs has written through the journal in direct mode; f_mount follows
esp_vfs_fat_spiflash_mount_jrnl_formatted ==
    /\ vfs.pc = "format" /\ pc = "ret" /\ call.op = "write"
    /\ \/ vfs' = [vfs EXCEPT !.result = "ESP_FAIL", !.pc = "cleanup"]
       \/ /\ ret = "ESP_OK"
          /\ vfs' = [vfs EXCEPT !.fmounted = TRUE, !.pc = "set_direct_io"]
    /\ UNCHANGED JrnlVars

\* esp_jrnl_set_direct_io(jrnl_handle_temp, false) has returned: on success
\* the handle is given to the caller
esp_vfs_fat_spiflash_mount_jrnl_ready ==
    /\ vfs.pc = "set_direct_io" /\ pc = "ret" /\ call.op = "set_direct_io"
    /\ vfs' = IF ret = "ESP_OK"
              THEN [vfs EXCEPT !.result = "ESP_OK", !.out = s_jrnl_handle, !.pc = "done"]
              ELSE [vfs EXCEPT !.result = ret, !.pc = "cleanup"]
    /\ UNCHANGED JrnlVars

\* esp_vfs_fat_spiflash_unmount_jrnl(jrnl_handle, base_path) called by the
\* application with the handle the mount gave it
esp_vfs_fat_spiflash_unmount_jrnl ==
    /\ vfs.pc = "idle" /\ pc = "idle"
    /\ vfs.out # JRNL_INVALID_HANDLE
    /\ vfs' = [vfs EXCEPT !.op = "unmount", !.result = "NONE", !.pc = "cleanup"]
    /\ UNCHANGED JrnlVars

\* esp_vfs_fat_spiflash_unmount_jrnl up to esp_jrnl_unmount, called by the
\* application or by the failed mount with &jrnl_handle_temp
esp_vfs_fat_spiflash_unmount_jrnl_detach ==
    /\ vfs.pc = "cleanup" /\ pc = "idle"
    /\ vfs' = IF s_jrnl_handle = JRNL_INVALID_HANDLE
              THEN [vfs EXCEPT !.pc = "done",
                        !.result = IF vfs.op = "unmount" THEN "ESP_ERR_INVALID_ARG" ELSE @]
              ELSE IF ~vfs.diskio
              THEN [vfs EXCEPT !.pdrvh = FALSE, !.pc = "done",
                        !.result = IF vfs.op = "unmount" THEN "ESP_ERR_INVALID_STATE" ELSE @]
              ELSE [vfs EXCEPT !.pdrvh = FALSE, !.diskio = FALSE, !.fmounted = FALSE,
                               !.pc = "jrnl_unmount"]
    /\ UNCHANGED JrnlVars

\* esp_jrnl_unmount has returned: on success *jrnl_handle is invalidated, the
\* wear-levelling layer unmounted and base_path unregistered
esp_vfs_fat_spiflash_unmount_jrnl_released ==
    /\ vfs.pc = "jrnl_unmount" /\ pc = "ret" /\ call.op = "unmount"
    /\ vfs' = IF ret = "ESP_OK"
              THEN [vfs EXCEPT !.wl = @ - 1, !.path = FALSE, !.pc = "done",
                        !.out = IF vfs.op = "unmount" THEN JRNL_INVALID_HANDLE ELSE @,
                        !.result = IF vfs.op = "unmount" THEN "ESP_OK" ELSE @]
              ELSE [vfs EXCEPT !.pc = "done",
                        !.result = IF vfs.op = "unmount" THEN ret ELSE @]
    /\ UNCHANGED JrnlVars

\* the call of the glue returns; jrnl_handle_temp is gone and the application
\* holds what the call left in *jrnl_handle
esp_vfs_fat_spiflash_return ==
    /\ vfs.pc = "done" /\ pc = "idle"
    /\ vfs' = [vfs EXCEPT !.pc = "idle", !.op = "none", !.result = "NONE", !.cfg = NoCfg]
    /\ s_jrnl_handle' = vfs.out
    /\ UNCHANGED <<disk, s_jrnl_instance_ptrs, instances, s_instances_lock,
                   pc, call, loc, ret, gh, used, other>>

\* an application that mounts and unmounts the volume through the glue, on a
\* device that may fail
NextVfs ==
    \/ \E cfg \in Configs : esp_vfs_fat_spiflash_mount_jrnl(cfg)
    \/ vfs.pc = "jrnl_mount" /\ esp_jrnl_mount(vfs.cfg)
    \/ esp_vfs_fat_spiflash_mount_jrnl_mounted
    \/ esp_vfs_fat_spiflash_mount_jrnl_register
    \/ vfs.pc = "format" /\ esp_jrnl_write(0, 1, 1)
    \/ esp_vfs_fat_spiflash_mount_jrnl_formatted
    \/ vfs.pc = "set_direct_io" /\ esp_jrnl_set_direct_io(FALSE)
    \/ esp_vfs_fat_spiflash_mount_jrnl_ready
    \/ esp_vfs_fat_spiflash_unmount_jrnl
    \/ esp_vfs_fat_spiflash_unmount_jrnl_detach
    \/ vfs.pc = "jrnl_unmount" /\ esp_jrnl_unmount
    \/ esp_vfs_fat_spiflash_unmount_jrnl_released
    \/ esp_vfs_fat_spiflash_return
    \/ esp_jrnl_mount_read
    \/ esp_jrnl_mount_reset
    \/ esp_jrnl_mount_exit
    \/ jrnl_update_master_erase
    \/ jrnl_update_master_write
    \/ jrnl_replay_enter
    \/ jrnl_replay_exit
    \/ esp_jrnl_write_direct_erase
    \/ esp_jrnl_write_direct_write
    \/ vfs.pc \notin VfsWaits /\ ReturnToCaller
    \/ DevError

SpecVfs == Init /\ [][NextVfs]_vars

\* the program without power loss, where a call that has a step to take takes
\* it: the thread inside a call is scheduled again and the device answers
NextLive ==
    \/ Calls
    \/ Steps

SpecLive == Init /\ [][NextLive]_vars /\ WF_vars(Steps)

\* the program with a second thread that unmounts the instance
NextUnmount ==
    \/ Calls
    \/ Steps
    \/ esp_jrnl_unmount_other
    \/ InstanceFault

SpecUnmount == Init /\ [][NextUnmount]_vars

\* the program on a heap that may refuse an allocation of jrnl_replay
NextAlloc ==
    \/ Calls
    \/ Steps
    \/ jrnl_replay_header_no_mem
    \/ jrnl_replay_data_no_mem

SpecAlloc == Init /\ [][NextAlloc]_vars

\* the program on a device whose store sectors may lose their content
NextDecay ==
    \/ Calls
    \/ Steps
    \/ \E s \in FsSectors .. (MasterSector - 1) : StoreSectorDecays(s)

SpecDecay == Init /\ [][NextDecay]_vars

\* the program with mounts of either store size, on a device without faults
NextMount ==
    \/ Calls
    \/ Steps
    \/ \E cfg \in ResizedConfigs : esp_jrnl_mount(cfg)

SpecMount == Init /\ [][NextMount]_vars

\* the same program with the queries of the geometry
NextQuery ==
    \/ NextMount
    \/ esp_jrnl_get_sector_count
    \/ esp_jrnl_get_sector_size

SpecQuery == Init /\ [][NextQuery]_vars

\* the program called from two threads, on a device without faults
NextConc ==
    \/ Calls
    \/ Steps
    \/ \E a \in WriteArgs : esp_jrnl_write_other_check(a.sector, a.count, a.v)
    \/ esp_jrnl_write_other_append
    \/ esp_jrnl_stop_other_cancel

SpecConc == Init /\ [][NextConc]_vars

\* configurations that create the store anew
FreshConfigs == { c \in Configs : c.overwrite_existing }

\* a handle value that designates no instance
StaleHandle == jrnl_check_handle(s_jrnl_handle) # "ESP_OK"

\* the program of an application that creates several instances, switches the
\* first of them between direct and journaled mode, reads through it, and
\* passes handle values of every kind, on a device without faults
NextTable ==
    \/ \E cfg \in FreshConfigs : esp_jrnl_mount(cfg)
    \/ esp_jrnl_mount_reset
    \/ esp_jrnl_mount_exit
    \/ jrnl_update_master_erase
    \/ jrnl_update_master_write
    \/ esp_jrnl_unmount
    \/ StaleHandle /\ esp_jrnl_start
    \/ StaleHandle /\ \E commit \in BOOLEAN : esp_jrnl_stop(commit)
    \/ StaleHandle /\ \E a \in WriteArgs : esp_jrnl_write(a.sector, a.count, a.v)
    \/ (StaleHandle \/ s_jrnl_handle = 0) /\ \E on \in BOOLEAN : esp_jrnl_set_direct_io(on)
    \/ (StaleHandle \/ s_jrnl_handle = 0) /\ \E s \in FsArea : esp_jrnl_read(s, 1)
    \/ (StaleHandle \/ s_jrnl_handle = 0) /\ esp_jrnl_get_sector_count
    \/ (StaleHandle \/ s_jrnl_handle = 0) /\ esp_jrnl_get_sector_size
    \/ \E op \in HandleOps : esp_jrnl_call_no_handle(op)
    \/ ReturnToCaller
    \/ \E h \in HandleValues : UseHandle(h)
    \/ \E op \in HandleOps, h \in BelowTable : esp_jrnl_call_below_table(op, h)

SpecTable == Init /\ [][NextTable]_vars

\* ------------------------------------------------------------------ properties
Returned(op) == pc = "ret" /\ call.op = op

MemMaster == M(call.handle)

\* READY, rewound, magic intact
IsReadyMaster(m) ==
    /\ m.jrnl_magic_mark = JRNL_STORE_MARKER
    /\ m.status = ESP_JRNL_STATUS_TRANS_READY
    /\ m.next_free_sector = 0

\* the master is READY and rewound on the device and in the mounted instance
MasterReadyEverywhere ==
    /\ DiskHasMaster
    /\ IsReadyMaster(DiskMaster)
    /\ s_jrnl_handle \in Handles
    /\ M(s_jrnl_handle) = DiskMaster

\* a mount that keeps the existing store and replays it
ReplayingMount ==
    /\ Returned("mount")
    /\ call.cfg.replay_journal_after_mount
    /\ ~need_fresh_journal(call.cfg)

\* C1: a transaction that was begun and whose COMMIT master never reached the
\* device (power lost between its writes or between the device operations of
\* one of them) is rolled back by a mount with replay: the mount succeeds, the
\* file-system area is as it was at begin, the master is READY with
\* next_free_sector = 0.
C1_UncommittedRolledBack ==
    (ReplayingMount /\ call.pretxn = "open")
        => /\ ret = "ESP_OK"
           /\ FsImage(disk) = gh.fsAtBegin
           /\ MasterReadyEverywhere

C1_Witness ==
    /\ ReplayingMount /\ call.pretxn = "open"
    /\ used.crashes >= 1
    /\ call.premaster.status = ESP_JRNL_STATUS_TRANS_OPEN
    /\ call.premaster.next_free_sector > 0
    /\ ApplyAll(gh.fsAtBegin, gh.txWrites) # gh.fsAtBegin

\* C2: when the device holds a COMMIT master at mount (power was lost after the
\* COMMIT master was persisted and before replay reset it), a mount with
\* replay runs the replay from entry 0, every target sector then holds the
\* journaled payload, and the master is READY with next_free_sector = 0.
C2_CommittedReplayedAtMount ==
    (ReplayingMount /\ call.premaster.status = ESP_JRNL_STATUS_TRANS_COMMIT)
        => /\ ret = "ESP_OK"
           /\ gh.replays = 1
           /\ FsImage(disk) = ApplyAll(gh.fsAtBegin, gh.txWrites)
           /\ MasterReadyEverywhere

C2_Witness ==
    /\ ReplayingMount
    /\ call.premaster.status = ESP_JRNL_STATUS_TRANS_COMMIT
    /\ used.crashes >= 1
    /\ Len(gh.txWrites) = 2
    /\ FsImage(call.predisk) # FsImage(disk)
    /\ FsImage(call.predisk) # gh.fsAtBegin

\* C3: from begin until the transaction is cancelled no sector of the
\* file-system area is erased or written: the area keeps the content it had at
\* begin in every state of an open transaction and when end(commit=false)
\* returns.
C3_CancelledTouchesNoTarget ==
    (\/ gh.txn = "open"
     \/ Returned("stop") /\ ~call.commit /\ call.pretxn = "open")
        => FsImage(disk) = gh.fsAtBegin

C3_Witness ==
    /\ Returned("stop") /\ ~call.commit /\ call.pretxn = "open"
    /\ ret = "ESP_OK"
    /\ Len(gh.txWrites) = 2

\* C4: after a successful end(commit=true) the file-system area is the area at
\* begin with the journaled writes applied in call order: the last write to a
\* sector wins, sectors no write names are unchanged.
C4_CommitAppliesInOrder ==
    (Returned("stop") /\ call.commit /\ ret = "ESP_OK")
        => FsImage(disk) = ApplyAll(gh.fsAtBegin, gh.txWrites)

C4_Witness ==
    /\ Returned("stop") /\ call.commit /\ ret = "ESP_OK"
    /\ Len(gh.txWrites) = 2
    /\ ApplyAll(gh.fsAtBegin, gh.txWrites)
         # ApplyAll(gh.fsAtBegin, <<gh.txWrites[2], gh.txWrites[1]>>)

\* C5: after every successful transaction end (commit or cancel) the master is
\* READY with next_free_sector = 0 and the magic intact, in memory and on the
\* device.
C5_EndLeavesReady ==
    (Returned("stop") /\ ret = "ESP_OK")
        => /\ IsReadyMaster(MemMaster)
           /\ DiskHasMaster
           /\ DiskMaster = MemMaster

C5_Witness ==
    /\ Returned("stop") /\ call.commit /\ ret = "ESP_OK"
    /\ call.premaster.next_free_sector > 0

\* C6: in a run without power loss, after transactions, an unmount and a mount
\* that keeps the existing store, a read of any file-system sector succeeds and
\* returns what the committed transactions (and direct writes) left there.
C6_RemountReadsCommitted ==
    (Returned("read") /\ gh.clean /\ gh.remount /\ used.trans >= 1)
        => /\ ret = "ESP_OK"
           /\ loc.data = <<gh.image[call.sector]>>

\* C7: a replay of a committed journal that completes, whether it is the
\* first pass inside end(commit=true) or a pass re-run by a mount after earlier
\* passes were interrupted, leaves the device with exactly the bytes that one
\* uninterrupted replay leaves on the device as it was when the COMMIT master
\* was persisted.
C7_ReplayIdempotent ==
    (/\ pc = "ret" /\ ret = "ESP_OK"
     /\ \/ call.op = "stop" /\ call.commit
        \/ ReplayingMount /\ call.premaster.status = ESP_JRNL_STATUS_TRANS_COMMIT)
        => disk = ReplayRun(gh.committed)

C7_Witness ==
    /\ ReplayingMount /\ ret = "ESP_OK"
    /\ call.premaster.status = ESP_JRNL_STATUS_TRANS_COMMIT
    /\ used.crashes >= 1
    /\ Len(gh.txWrites) = 2
    /\ FsImage(call.predisk) # FsImage(gh.committed)
    /\ FsImage(call.predisk) # FsImage(disk)

\* C8: while the device holds a COMMIT master and no replay has yet written
\* every entry, no step of anything but a mount told to make a fresh store
\* changes the master sector.
C8_CommitKeptUntilReplayed ==
    [][(/\ DiskHasMaster
        /\ DiskMaster.status = ESP_JRNL_STATUS_TRANS_COMMIT
        /\ ~gh.applied
        /\ ~(call.op = "mount" /\ need_fresh_journal(call.cfg)))
            => disk'[MasterSector] = disk[MasterSector]]_vars

C10_CommitOnlyFromOpen ==
    (Returned("stop") /\ call.commit
        /\ call.premaster.status # ESP_JRNL_STATUS_TRANS_OPEN)
        => /\ ret = "ESP_ERR_INVALID_STATE"
           /\ disk = call.predisk
           /\ MemMaster = call.premaster

C10_Witness ==
    /\ Returned("stop") /\ call.commit
    /\ call.premaster.status = ESP_JRNL_STATUS_TRANS_COMMIT
    /\ call.premaster.next_free_sector > 0
    /\ ret = "ESP_ERR_INVALID_STATE"

\* C11: end(commit=false) called while the status is INIT or COMMIT returns
\* ESP_ERR_INVALID_STATE and leaves the in-memory master and the device as
\* they were before the call.
C11_CancelOnlyFromOpen ==
    (Returned("stop") /\ ~call.commit
        /\ call.premaster.status \in {ESP_JRNL_STATUS_FS_INIT,
                                      ESP_JRNL_STATUS_TRANS_COMMIT})
        => /\ ret = "ESP_ERR_INVALID_STATE"
           /\ MemMaster = call.premaster
           /\ disk = call.predisk

\* C12: a write called while the status is READY or COMMIT returns
\* ESP_ERR_INVALID_STATE without any device operation: the whole device (store,
\* master, targets) and the in-memory master are as before the call.
C12_WriteRefusedOutsideTransaction ==
    (Returned("write")
        /\ call.premaster.status \in {ESP_JRNL_STATUS_TRANS_READY,
                                      ESP_JRNL_STATUS_TRANS_COMMIT})
        => /\ ret = "ESP_ERR_INVALID_STATE"
           /\ disk = call.predisk
           /\ MemMaster = call.premaster

C12_Witness ==
    /\ Returned("write")
    /\ call.premaster.status = ESP_JRNL_STATUS_TRANS_COMMIT
    /\ call.premaster.next_free_sector > 0
    /\ ret = "ESP_ERR_INVALID_STATE"

\* the direct write of the returned call changed exactly its target range
DirectWriteFrame ==
    /\ \A s \in DOMAIN disk :
          disk[s] = IF call.sector <= s /\ s < call.sector + call.count
                    THEN Data(call.v, s - call.sector)
                    ELSE call.predisk[s]
    /\ MemMaster = call.premaster

\* C13: a write called in status INIT that returns ESP_OK has put its data on
\* exactly the target range of the device, has left every other sector (the
\* store and the master record included) and the in-memory master as they
\* were, and a read of the same range then returns the written data.
C13_DirectWriteThenRead ==
    (Returned("write") /\ ret = "ESP_OK"
        /\ call.premaster.status = ESP_JRNL_STATUS_FS_INIT)
        => /\ DirectWriteFrame
           /\ esp_jrnl_read_result(MemMaster, disk, call.sector, call.count)
                = [err |-> "ESP_OK", data |-> Payload(call.v, call.count),
                   devread |-> TRUE]

\* C14: set_direct_io called in status INIT or READY is not refused, sets the
\* in-memory status to INIT for on = true and to READY for on = false, and
\* when it returns ESP_OK the master record on the device equals the
\* in-memory master; called in status OPEN or COMMIT it returns
\* ESP_ERR_INVALID_STATE and leaves the in-memory master and the device as
\* they were.
C14_DirectIoOnlyOutsideTransaction ==
    Returned("set_direct_io") =>
        IF call.premaster.status \in {ESP_JRNL_STATUS_FS_INIT,
                                      ESP_JRNL_STATUS_TRANS_READY}
        THEN /\ ret # "ESP_ERR_INVALID_STATE"
             /\ MemMaster = [call.premaster EXCEPT !.status =
                    IF call.on THEN ESP_JRNL_STATUS_FS_INIT
                    ELSE ESP_JRNL_STATUS_TRANS_READY]
             /\ ret = "ESP_OK" => (DiskHasMaster /\ DiskMaster = MemMaster)
        ELSE /\ ret = "ESP_ERR_INVALID_STATE"
             /\ MemMaster = call.premaster
             /\ disk = call.predisk

C14_Witness ==
    /\ Returned("set_direct_io")
    /\ call.premaster.status = ESP_JRNL_STATUS_TRANS_COMMIT
    /\ ret = "ESP_ERR_INVALID_STATE"

\* a switch carried out: the status went from READY to INIT on the device
C14_WitnessSwitched ==
    /\ Returned("set_direct_io")
    /\ call.premaster.status = ESP_JRNL_STATUS_TRANS_READY
    /\ call.on
    /\ ret = "ESP_OK"
    /\ DiskMaster.status = ESP_JRNL_STATUS_FS_INIT

\* what the capacity rule compares for the returned write call
WriteNeed == call.premaster.next_free_sector + 1 + call.count
WriteLimit == call.premaster.store_size_sectors - 1

\* C15: a write called in status OPEN with next_free_sector + 1 + count beyond
\* store_size_sectors - 1 returns ESP_ERR_NO_MEM, the device and the
\* in-memory master (status OPEN, next_free_sector) are as before the call,
\* and a commit run from this state leaves the file-system area equal to the
\* area at begin with exactly the writes accepted before applied.
C15_NoMemKeepsTransaction ==
    (Returned("write")
        /\ call.premaster.status = ESP_JRNL_STATUS_TRANS_OPEN
        /\ WriteNeed > WriteLimit)
        => /\ ret = "ESP_ERR_NO_MEM"
           /\ disk = call.predisk
           /\ MemMaster = call.premaster
           /\ FsImage(CommitRun(disk, MemMaster))
                = ApplyAll(gh.fsAtBegin, gh.txWrites)

C15_Witness ==
    /\ Returned("write")
    /\ call.premaster.status = ESP_JRNL_STATUS_TRANS_OPEN
    /\ WriteNeed > WriteLimit
    /\ ret = "ESP_ERR_NO_MEM"
    /\ Len(gh.txWrites) = 2
    /\ ApplyAll(gh.fsAtBegin, gh.txWrites) # gh.fsAtBegin

C17_ExactFitAccepted ==
    (Returned("write")
        /\ call.premaster.status = ESP_JRNL_STATUS_TRANS_OPEN
        /\ WriteNeed = WriteLimit)
        => /\ ret = "ESP_OK"
           /\ MemMaster.next_free_sector = WriteNeed

\* the data the device holds on the sectors of the returned read request
DeviceRange == [i \in 1 .. call.count |-> disk[call.sector + i - 1]]

\* C18: a read with target_sector + count <= store_volume_offset_sector is
\* passed to the device and returns ESP_OK with the device's content of the
\* range, also when it ends with the last sector of the file-system area.
C18_ReadUpToStoreAccepted ==
    (Returned("read")
        /\ call.sector >= 0 /\ call.count >= 1
        /\ call.sector + call.count <= call.premaster.store_volume_offset_sector)
        => /\ ret = "ESP_OK"
           /\ loc.devread
           /\ loc.data = DeviceRange

\* the returned read request, in unbounded arithmetic, starts in the store or
\* reaches into it
ReadReachesStore ==
    \/ call.sector < 0
    \/ call.count < 0
    \/ call.sector + call.count > call.premaster.store_volume_offset_sector

\* C19: for every 32-bit target_sector and count, a read that starts in the
\* store or reaches into it is rejected with an error and without a read
\* request to the device, also when target_sector + count exceeds 2^32 - 1.
C19_ReadNeverReachesStore ==
    (Returned("read") /\ ReadReachesStore)
        => /\ ret # "ESP_OK"
           /\ ~loc.devread

\* C20: a read that returns ESP_OK returns the device's content of the target
\* range of the file-system area, never a journal entry: while the status is
\* OPEN this is the content from before begin, whatever the transaction has
\* written to the range.
C20_ReadBypassesJournal ==
    (Returned("read") /\ ret = "ESP_OK")
        => /\ call.sector + call.count <= FsSectors
           /\ loc.data = DeviceRange
           /\ call.premaster.status = ESP_JRNL_STATUS_TRANS_OPEN
                => loc.data = [i \in 1 .. call.count |->
                                  gh.fsAtBegin[call.sector + i - 1]]

C20_Witness ==
    /\ Returned("read") /\ ret = "ESP_OK"
    /\ call.premaster.status = ESP_JRNL_STATUS_TRANS_OPEN
    /\ \E i \in 1 .. Len(gh.txWrites) :
          /\ gh.txWrites[i].sector = call.sector
          /\ loc.data[1] # Data(gh.txWrites[i].v, 0)

\* after the commit the journaled data is what a read returns
C20_WitnessAfterCommit ==
    /\ Returned("read") /\ ret = "ESP_OK"
    /\ call.premaster.status = ESP_JRNL_STATUS_TRANS_READY
    /\ loc.data[1] = Data(1, 0)
    /\ gh.image[call.sector] = Data(1, 0)

\* C21: a write called in status INIT or OPEN whose target range is not
\* entirely below store_volume_offset_sector is rejected and leaves the
\* device as it was; and while an instance is mounted and no call is in
\* progress the master sector of the device holds a master record with the
\* magic value.
C21_WriteRejectsStoreTargets ==
    /\ (Returned("write")
          /\ call.premaster.status \in {ESP_JRNL_STATUS_FS_INIT,
                                        ESP_JRNL_STATUS_TRANS_OPEN}
          /\ call.sector + call.count > call.premaster.store_volume_offset_sector)
          => (ret # "ESP_OK" /\ disk = call.predisk)
    /\ (pc = "idle" /\ s_jrnl_handle \in Handles)
          => (DiskHasMaster /\ DiskMaster.jrnl_magic_mark = JRNL_STORE_MARKER)

\* the configuration of the returned mount differs from the master record the
\* device held when the mount was called
MountInconsistent ==
    \/ call.cfg.store_size_sectors # call.premaster.store_size_sectors
    \/ VolumeSize # call.premaster.volume_size
    \/ SectorSize # call.premaster.disk_sector_size

C22_WitnessRemount ==
    /\ Returned("mount") /\ ~need_fresh_journal(call.cfg)
    /\ call.premaster.jrnl_magic_mark = JRNL_STORE_MARKER
    /\ call.premaster.store_size_sectors = StoreSizeSectors - 1
    /\ call.cfg.store_size_sectors = StoreSizeSectors - 1
    /\ ret = "ESP_OK"

\* C23: every mount that returns ESP_OK leaves the master with status INIT,
\* in the instance and on the device.
C23_MountEndsInInit ==
    (Returned("mount") /\ ret = "ESP_OK")
        => /\ M(s_jrnl_handle).status = ESP_JRNL_STATUS_FS_INIT
           /\ DiskHasMaster
           /\ DiskMaster = M(s_jrnl_handle)

\* a mount with replay of a store whose persisted master has the magic, the
\* configured size and status INIT
RecoveryOnInit ==
    /\ call.op = "mount"
    /\ call.cfg.replay_journal_after_mount
    /\ ~need_fresh_journal(call.cfg)
    /\ call.premaster.jrnl_magic_mark = JRNL_STORE_MARKER
    /\ call.premaster.store_size_sectors = call.cfg.store_size_sectors
    /\ call.premaster.status = ESP_JRNL_STATUS_FS_INIT

\* C24: recovery run by a mount on a persisted status INIT does not abort the
\* program: the mount returns ESP_ERR_INVALID_STATE with the device as it
\* was before the call.
C24_RecoveryOnInitFails ==
    RecoveryOnInit
        => /\ pc # "aborted"
           /\ pc = "ret" => (ret = "ESP_ERR_INVALID_STATE" /\ disk = call.predisk)

\* the first thread is inside esp_jrnl_stop(commit = true), the COMMIT master
\* is on the device and the replay has not yet persisted its final reset
CommitWindow ==
    /\ call.op = "stop" /\ call.commit
    /\ gh.txn = "commit"
    /\ pc # "ret"

\* C25: while a commit is between the persisting of COMMIT and the final
\* master reset of its replay, every step that changes the device or an
\* instance is a step of the committing thread: no call of another thread
\* takes effect.
C25_CommitExcludesOthers ==
    [][(CommitWindow /\ pc' = pc /\ call' = call)
          => (disk' = disk /\ instances' = instances)]_vars

\* the master of every registered instance is one a sequential use produces:
\* READY only with an empty journal, next_free_sector in front of the master
MastersSequential ==
    \A h \in Handles :
        s_jrnl_instance_ptrs[h] # NULL
            => /\ M(h).status = ESP_JRNL_STATUS_TRANS_READY
                    => M(h).next_free_sector = 0
               /\ M(h).next_free_sector < M(h).store_size_sectors - 1

\* C26: with begin, write, end and set_direct_io called from two threads the
\* instance is always in a state a sequential order of the calls produces:
\* status READY implies next_free_sector = 0, the entries stay in front of
\* the master record, and the assertion of esp_jrnl_start never fails.
C26_CallsSerialised ==
    /\ MastersSequential
    /\ ~(pc = "aborted" /\ call.op = "start")

\* the lowest index of a table that holds no instance, -1 if there is none
LowestFree(table) ==
    IF \E h \in Handles : table[h] = NULL
    THEN CHOOSE h \in Handles :
            table[h] = NULL /\ \A g \in Handles : g < h => table[g] # NULL
    ELSE JRNL_INVALID_HANDLE

\* C27: a successful mount returns the lowest slot that was free and fills
\* exactly that slot; with all slots occupied mount returns ESP_ERR_NO_MEM and
\* leaves table and device as they were; a successful unmount clears exactly
\* the slot of its handle; a call with a handle whose slot is empty returns
\* ESP_ERR_NOT_FOUND; every other call, and a mount before its registration,
\* leaves the table as it was.
C27_TableDiscipline ==
    /\ (Returned("mount") /\ ret = "ESP_OK") =>
          LET h == LowestFree(call.pretable)
          IN /\ h \in Handles
             /\ s_jrnl_handle = h
             /\ s_jrnl_instance_ptrs[h] # NULL
             /\ \A g \in Handles \ {h} :
                    s_jrnl_instance_ptrs[g] = call.pretable[g]
    /\ (call.op = "mount" /\ LowestFree(call.pretable) = JRNL_INVALID_HANDLE) =>
          /\ pc = "ret"
          /\ ret = "ESP_ERR_NO_MEM"
          /\ s_jrnl_instance_ptrs = call.pretable
          /\ disk = call.predisk
    /\ (call.op = "mount" /\ ~(pc = "ret" /\ ret = "ESP_OK")) =>
          s_jrnl_instance_ptrs = call.pretable
    /\ (Returned("unmount") /\ ret = "ESP_OK") =>
          /\ call.handle \in Handles
          /\ call.pretable[call.handle] # NULL
          /\ s_jrnl_instance_ptrs = [call.pretable EXCEPT ![call.handle] = NULL]
    /\ (Returned("unmount") /\ ret # "ESP_OK") =>
          s_jrnl_instance_ptrs = call.pretable
    /\ (pc = "ret" /\ call.op # "mount" /\ call.handle \in Handles
           /\ call.pretable[call.handle] = NULL) =>
          ret = "ESP_ERR_NOT_FOUND"
    /\ (call.op \notin {"none", "mount", "unmount"}) =>
          s_jrnl_instance_ptrs = call.pretable

\* a mount has returned slot 0 while slot 1 holds an instance: slot 0 was
\* cleared by an unmount and is used again
C27_Witness ==
    /\ Returned("mount") /\ ret = "ESP_OK"
    /\ s_jrnl_handle = 0
    /\ call.pretable[0] = NULL
    /\ call.pretable[1] # NULL

\* a mount has been refused because all slots hold an instance
C27_WitnessFull ==
    /\ Returned("mount") /\ ret = "ESP_ERR_NO_MEM"
    /\ \A h \in Handles : s_jrnl_instance_ptrs[h] # NULL

\* a call with the handle of an unmounted instance has returned
C27_WitnessStale ==
    /\ pc = "ret" /\ call.op \in {"read", "start", "unmount"}
    /\ call.handle = 0
    /\ ret = "ESP_ERR_NOT_FOUND"
    /\ s_jrnl_instance_ptrs[1] # NULL

\* a handle value that designates no instance of a table
BadHandle(handle, table) ==
    \/ handle < 0
    \/ handle >= JRNL_MAX_HANDLES
    \/ table[handle] = NULL

\* the cases of C28 that jrnl_check_handle decides by its comparisons and by a
\* slot of the table: JRNL_INVALID_HANDLE, values from JRNL_MAX_HANDLES on, and
\* empty slots are rejected without device access and without a change of an
\* instance
CheckedHandleRejected ==
    (call.op \in HandleOps /\ call.handle >= JRNL_INVALID_HANDLE
        /\ BadHandle(call.handle, call.pretable)) =>
        /\ pc = "ret"
        /\ ret = (IF call.handle = JRNL_INVALID_HANDLE THEN "ESP_ERR_INVALID_STATE"
                  ELSE IF call.handle >= JRNL_MAX_HANDLES THEN "ESP_ERR_INVALID_ARG"
                  ELSE "ESP_ERR_NOT_FOUND")
        /\ disk = call.predisk
        /\ instances = call.preinst
        /\ ~loc.devread

\* C28: a public operation called with a negative handle, a handle from
\* JRNL_MAX_HANDLES on, or the handle of an empty slot returns an error, its
\* outcome does not depend on a word outside the table (ESP_ERR_NOT_FOUND is
\* the outcome of reading a slot, so it is given for handles of the table
\* only), it accesses the device not at all and changes no instance.
C28_InvalidHandleRejected ==
    (call.op \in HandleOps /\ BadHandle(call.handle, call.pretable)) =>
        /\ pc = "ret"
        /\ ret \notin {"ESP_OK", "NONE"}
        /\ call.handle \notin Handles => ret # "ESP_ERR_NOT_FOUND"
        /\ disk = call.predisk
        /\ instances = call.preinst
        /\ ~loc.devread

\* the call with a negative handle does not come back
C28_NegativeHandleReturns ==
    (call.op \in HandleOps /\ call.handle < JRNL_INVALID_HANDLE) => pc = "ret"

\* calls with JRNL_INVALID_HANDLE, with JRNL_MAX_HANDLES and with the handle of
\* a cleared slot have been rejected
C28_WitnessNoHandle == Returned("write") /\ call.handle = JRNL_INVALID_HANDLE
C28_WitnessBeyond == Returned("stop") /\ call.handle = JRNL_MAX_HANDLES
C28_WitnessEmpty ==
    /\ Returned("set_direct_io") /\ call.handle = 1
    /\ call.pretable[1] = NULL /\ call.pretable[0] # NULL

\* C29: for every registered instance store_volume_offset_sector +
\* store_size_sectors is the number of sectors of the volume; between the
\* calls the master record of the instance in use is the content of the last
\* sector of the volume; esp_jrnl_get_sector_count gives
\* store_volume_offset_sector, the number of sectors of the volume less
\* store_size_sectors.
C29_StoreAtVolumeEnd ==
    /\ \A h \in Handles :
          s_jrnl_instance_ptrs[h] # NULL =>
              M(h).store_volume_offset_sector + M(h).store_size_sectors
                  = TotalSectors
    /\ (pc = "idle" /\ s_jrnl_handle \in Handles) =>
          /\ DiskHasMaster
          /\ DiskMaster = M(s_jrnl_handle)
          /\ \A s \in 0 .. (MasterSector - 1) : disk[s].k # "master"
    /\ (Returned("get_sector_count") /\ ret = "ESP_OK") =>
          /\ loc.fs_part_sector_count = M(call.handle).store_volume_offset_sector
          /\ loc.fs_part_sector_count
                = TotalSectors - M(call.handle).store_size_sectors

\* the count has been queried of an instance whose store has the smaller size
C29_Witness ==
    /\ Returned("get_sector_count") /\ ret = "ESP_OK"
    /\ M(call.handle).store_size_sectors = StoreSizeSectors - 1
    /\ loc.fs_part_sector_count = FsSectors + 1

\* the count has been queried of an instance whose store has the larger size
C29_WitnessLarge ==
    /\ Returned("get_sector_count") /\ ret = "ESP_OK"
    /\ M(call.handle).store_size_sectors = StoreSizeSectors
    /\ loc.fs_part_sector_count = FsSectors

\* the parts of C29 about the numbers: the sum of offset and size, and the
\* value given by esp_jrnl_get_sector_count
StoreGeometry ==
    /\ \A h \in Handles :
          s_jrnl_instance_ptrs[h] # NULL =>
              M(h).store_volume_offset_sector + M(h).store_size_sectors
                  = TotalSectors
    /\ (Returned("get_sector_count") /\ ret = "ESP_OK") =>
          /\ loc.fs_part_sector_count = M(call.handle).store_volume_offset_sector
          /\ loc.fs_part_sector_count
                = TotalSectors - M(call.handle).store_size_sectors

\* a direct write has replaced the master record in the last sector
MasterOverwritten ==
    /\ pc = "idle" /\ s_jrnl_handle \in Handles
    /\ ~DiskHasMaster

\* the bytes of the store in front of the master sector contain the range
InEntryArea(m, addr, size) ==
    /\ size >= 0
    /\ addr >= m.store_volume_offset_sector * m.disk_sector_size
    /\ addr + size <= (m.store_volume_offset_sector + m.store_size_sectors - 1)
                        * m.disk_sector_size

\* the range the append in progress asks the device to erase or to write next
AppendRequest ==
    LET m == M(loc.inst)
        ss == m.disk_sector_size
        oper_addr == jrnl_get_target_disk_sector(m, m.next_free_sector) * ss
        oper_size == (call.count + 1) * ss
    IN CASE pc = "jw_erase" -> [addr |-> oper_addr, size |-> oper_size]
         [] pc = "jw_hdr"   -> [addr |-> oper_addr, size |-> ss]
         [] pc = "jw_data"  -> [addr |-> oper_addr + ss, size |-> oper_size - ss]

\* the persisted next_free_sector is at most store_size_sectors - 1
PersistedCursorInStore ==
    DiskHasMaster => DiskMaster.next_free_sector <= DiskMaster.store_size_sectors - 1

\* C30: the persisted next_free_sector never exceeds store_size_sectors - 1;
\* every erase and write an append asks of the device lies in the store in
\* front of the master sector; a write call does not end in a fault, whatever
\* the uint32_t value of count.
C30_AppendStaysInStore ==
    /\ PersistedCursorInStore
    /\ pc \in {"jw_erase", "jw_hdr", "jw_data"} =>
          InEntryArea(M(loc.inst), AppendRequest.addr, AppendRequest.size)
    /\ ~(pc = "aborted" /\ call.op = "write")

\* a count whose sum with next_free_sector + 1 wraps has passed the capacity
\* check
WrapAccepted ==
    /\ pc \in {"jw_erase", "jw_hdr", "jw_data"}
    /\ call.count < 0

\* an append asks for a range outside the store
AppendLeavesStore ==
    /\ pc \in {"jw_erase", "jw_hdr", "jw_data"}
    /\ ~InEntryArea(M(loc.inst), AppendRequest.addr, AppendRequest.size)

\* the append of a wrapping count writes its header and comes back with the
\* error of the device
WrapHeaderWritten ==
    /\ Returned("write") /\ call.count < 0
    /\ ret = "ESP_ERR_INVALID_ARG"
    /\ disk # call.predisk

\* C31: while esp_jrnl_stop(commit) runs, a step that changes a sector of the
\* file-system area is taken with a COMMIT master in the master sector, which
\* the step leaves alone; and the COMMIT master the call has persisted is
\* replaced only by the reset that ends jrnl_replay, when the cursor has passed
\* the last entry.
C31_TargetsOnlyUnderCommit ==
    [][ /\ (call.op = "stop" /\ call.commit /\ FsImage(disk') # FsImage(disk)) =>
              /\ DiskHasMaster
              /\ DiskMaster.status = ESP_JRNL_STATUS_TRANS_COMMIT
              /\ disk'[MasterSector] = disk[MasterSector]
        /\ (call.op = "stop" /\ call.commit /\ DiskHasMaster
               /\ DiskMaster.status = ESP_JRNL_STATUS_TRANS_COMMIT
               /\ disk[MasterSector] # call.predisk[MasterSector]
               /\ disk'[MasterSector] # disk[MasterSector]) =>
              /\ loc.cont = "replay"
              /\ ~ReplayLoopCond(loc.cursor, DiskMaster)
              /\ FsImage(disk') = FsImage(disk)
      ]_vars

\* the commit is writing the target of its second entry
C31_Witness ==
    /\ call.op = "stop" /\ call.commit
    /\ pc = "rp_write"
    /\ loc.cursor > 0
    /\ DiskMaster.status = ESP_JRNL_STATUS_TRANS_COMMIT

\* the update of the master to COMMIT has failed and the call has returned the
\* error without a change of the file-system area
C31_WitnessCommitFailed ==
    /\ Returned("stop") /\ call.commit
    /\ ret = "ESP_FAIL"
    /\ ~(DiskHasMaster /\ DiskMaster.status = ESP_JRNL_STATUS_TRANS_COMMIT)
    /\ FsImage(disk) = FsImage(call.predisk)

\* the entries of the store on device d from the cursor up to the
\* next_free_sector of master m: each has a header and data that pass the
\* checks of jrnl_replay, and the last one ends at next_free_sector
RECURSIVE EntriesComplete(_, _, _)
EntriesComplete(d, m, cursor) ==
    IF cursor >= m.next_free_sector THEN cursor = m.next_free_sector
    ELSE LET f == ReplayFetch(d, m, cursor)
         IN /\ f.err = "ESP_OK"
            /\ f.hdr.sector_count >= 1
            /\ Len(f.data) = f.hdr.sector_count
            /\ EntriesComplete(d, m, cursor + (1 + f.hdr.sector_count))

\* C32: in every state, the states between the device operations of a write
\* and after a power loss included, the entries below the next_free_sector of
\* the master held by the master sector are complete: header and data pass
\* their checksums and the chain of entries ends at next_free_sector.
C32_PersistedEntriesComplete ==
    DiskHasMaster => EntriesComplete(disk, DiskMaster, 0)

\* the data of a second entry is about to be written while the master sector
\* still counts the first entry only
C32_Witness ==
    /\ pc = "jw_data"
    /\ DiskHasMaster
    /\ DiskMaster.next_free_sector > 0
    /\ ReplayFetch(disk, DiskMaster, DiskMaster.next_free_sector).err # "ESP_OK"

\* after a power loss in the middle of an append the master sector counts the
\* entries written before
C32_WitnessPowerLoss ==
    /\ used.crashes = 1 /\ pc = "idle"
    /\ DiskHasMaster
    /\ DiskMaster.next_free_sector > 0
    /\ disk[MasterSector - DiskMaster.store_size_sectors + 1
              + DiskMaster.next_free_sector].k = "hdr"

\* ---------------------------------------------------------------------------
\* C33: a replay that finds a header or data checksum mismatch in an entry
\* returns ESP_ERR_INVALID_CRC; it has erased and written the targets of the
\* entries before that one only, and the master, in memory and on the device,
\* is still the COMMIT master with the same next_free_sector. An entry the
\* replay erases or writes the target of has passed both checksum tests.

\* the replay has stopped at an entry whose checksum does not match
ReplayFoundMismatch ==
    /\ loc.err = "ESP_ERR_INVALID_CRC"
    /\ \/ pc = "rp_exit"
       \/ pc = "mount_exit" /\ loc.rcaller = "mount"
       \/ Returned("stop") /\ call.commit /\ ret = "ESP_ERR_INVALID_CRC"

\* the device after the entries before the cursor have been applied to the
\* device as it was when the call that runs the replay began
AppliedBefore(cursor) ==
    ReplayEntries([d |-> call.predisk, err |-> "ESP_OK"],
                  [M(loc.inst) EXCEPT !.next_free_sector = cursor],
                  0).d

C33_MismatchStopsReplay ==
    /\ ReplayFoundMismatch =>
          /\ ReplayFetch(disk, M(loc.inst), loc.cursor).err = "ESP_ERR_INVALID_CRC"
          /\ FsImage(disk) = FsImage(AppliedBefore(loc.cursor))
          /\ disk[MasterSector] = gh.committed[MasterSector]
          /\ DiskMaster.status = ESP_JRNL_STATUS_TRANS_COMMIT
          /\ M(loc.inst).status = ESP_JRNL_STATUS_TRANS_COMMIT
          /\ M(loc.inst).next_free_sector = DiskMaster.next_free_sector
    /\ pc \in {"rp_erase", "rp_write"} =>
          /\ esp_crc32_le(CrcSeed, HeaderWords(loc.hdr)) = loc.hdr.crc32_header
          /\ esp_crc32_le(CrcSeed, EncBuffer(loc.data)) = loc.hdr.crc32_data
    /\ (Returned("stop") /\ ret = "ESP_ERR_INVALID_CRC") => ReplayFoundMismatch

\* the header of the second entry of a committed journal does not match: the
\* first entry has been applied and esp_jrnl_stop returns the error
C33_Witness ==
    /\ Returned("stop") /\ ret = "ESP_ERR_INVALID_CRC"
    /\ loc.cursor > 0
    /\ disk[jrnl_get_target_disk_sector(M(loc.inst), loc.cursor)] = Garbled
    /\ FsImage(disk) # FsImage(gh.committed)

\* the data of an entry does not match its header
C33_WitnessData ==
    /\ Returned("stop") /\ ret = "ESP_ERR_INVALID_CRC"
    /\ disk[jrnl_get_target_disk_sector(M(loc.inst), loc.cursor)].k = "hdr"
    /\ disk[jrnl_get_target_disk_sector(M(loc.inst), loc.cursor + 1)] = Garbled

\* the replay run by esp_jrnl_mount finds the mismatch
C33_WitnessMount ==
    /\ pc = "mount_exit" /\ loc.rcaller = "mount"
    /\ loc.err = "ESP_ERR_INVALID_CRC"

\* ---------------------------------------------------------------------------
\* C34: every write to the device (the master, the header and the data of an
\* entry, the data a replay puts on its target, a direct write) lands on a
\* region that the same operation has erased just before, with no other write
\* to that region in between.

\* the steps that write to the device, and the step that erased for each
WriteSteps == {"upd_write", "rp_write", "jw_hdr", "jw_data", "dw_write"}

EraseStepOf(step) ==
    CASE step = "upd_write" -> "upd_erase"
      [] step = "rp_write" -> "rp_erase"
      [] step = "jw_hdr" -> "jw_erase"
      [] step = "dw_write" -> "dw_erase"
      [] OTHER -> "none"

\* the sectors the write of the step the thread is at goes to
PendingWrite ==
    LET m == M(loc.inst)
        ss == m.disk_sector_size
        oper_addr == jrnl_get_target_disk_sector(m, m.next_free_sector) * ss
    IN CASE pc = "upd_write" ->
               DevSectors(jrnl_get_target_disk_sector(m, m.store_size_sectors - 1) * ss, ss)
         [] pc = "rp_write" -> DevSectors(loc.hdr.target_sector * ss, Len(loc.data) * ss)
         [] pc = "jw_hdr" -> DevSectors(oper_addr, ss)
         [] pc = "jw_data" -> DevSectors(oper_addr + ss, call.count * ss)
         [] pc = "dw_write" -> DevSectors(call.sector * ss, call.count * ss)
         [] OTHER -> {}

\* the sectors the erase of the operation the thread is in has covered
LastErase ==
    LET m == M(loc.inst)
        ss == m.disk_sector_size
        oper_addr == jrnl_get_target_disk_sector(m, m.next_free_sector) * ss
    IN CASE pc = "upd_write" ->
               DevSectors(jrnl_get_target_disk_sector(m, m.store_size_sectors - 1) * ss, ss)
         [] pc = "rp_write" ->
               DevSectors(loc.hdr.target_sector * ss, ReplayEraseSize(loc.hdr, ss))
         [] pc \in {"jw_hdr", "jw_data"} -> DevSectors(oper_addr, (call.count + 1) * ss)
         [] pc = "dw_write" -> DevSectors(call.sector * ss, call.count * ss)
         [] OTHER -> {}

\* the sectors a step gives a content other than the erased one
Written == { s \in DOMAIN disk : disk'[s] # disk[s] /\ disk'[s] # Erased }

C34_EraseBeforeWrite ==
    [][ /\ (pc' \in WriteSteps /\ pc' # pc) =>
              /\ \/ pc = EraseStepOf(pc')
                 \/ pc = "jw_hdr" /\ pc' = "jw_data" /\ PendingWrite' \cap PendingWrite = {}
              /\ PendingWrite' # {}
              /\ PendingWrite' \subseteq LastErase'
              /\ \A s \in PendingWrite' : disk'[s] = Erased
        /\ Written # {} =>
              /\ pc \in WriteSteps
              /\ Written = PendingWrite
              /\ \A s \in Written : disk[s] = Erased /\ disk'[s] # Garbled ]_vars

\* esp_jrnl_stop replays an entry of two sectors: both are erased, then written
C34_Witness ==
    /\ pc = "rp_write" /\ call.op = "stop"
    /\ Cardinality(PendingWrite) = 2
    /\ \A s \in PendingWrite : disk[s] = Erased

\* the data of an entry is about to be written behind its header
C34_WitnessEntryData ==
    /\ pc = "jw_data"
    /\ disk[jrnl_get_target_disk_sector(M(loc.inst), M(loc.inst).next_free_sector)].k = "hdr"
    /\ PendingWrite # {} /\ \A s \in PendingWrite : disk[s] = Erased

\* ---------------------------------------------------------------------------
\* C35: when esp_jrnl_start, esp_jrnl_write, esp_jrnl_stop or
\* esp_jrnl_set_direct_io returns an error, a device error while the master is
\* persisted included, the in-memory master has the status and the
\* next_free_sector it had before the call, and so does not differ in them
\* from the persisted master.
C35_ErrorKeepsMaster ==
    (/\ pc = "ret" /\ call.op \in {"start", "write", "stop", "set_direct_io"}
     /\ ret # "ESP_OK"
     /\ call.handle \in Handles /\ s_jrnl_instance_ptrs[call.handle] # NULL) =>
        /\ MemMaster.status = call.premaster.status
        /\ MemMaster.next_free_sector = call.premaster.next_free_sector
        /\ DiskHasMaster =>
              /\ MemMaster.status = DiskMaster.status
              /\ MemMaster.next_free_sector = DiskMaster.next_free_sector

\* esp_jrnl_start has returned the error of the device and the master in
\* memory is OPEN while the persisted one is READY
StartFailedMasterOpen ==
    /\ Returned("start") /\ ret = "ESP_FAIL"
    /\ call.premaster.status = ESP_JRNL_STATUS_TRANS_READY
    /\ MemMaster.status = ESP_JRNL_STATUS_TRANS_OPEN
    /\ DiskHasMaster /\ DiskMaster.status = ESP_JRNL_STATUS_TRANS_READY

\* esp_jrnl_write has returned the error of the device and next_free_sector
\* in memory is ahead of the persisted one
WriteFailedCursorAhead ==
    /\ Returned("write") /\ ret = "ESP_FAIL"
    /\ MemMaster.next_free_sector > call.premaster.next_free_sector
    /\ DiskHasMaster /\ DiskMaster.next_free_sector = call.premaster.next_free_sector

\* ---------------------------------------------------------------------------
\* C36: esp_jrnl_unmount releases the mutex of the registry on every return
\* path: once it has returned, with an error for an invalid, out-of-range or
\* empty handle included, the mutex is free, so a following esp_jrnl_mount or
\* esp_jrnl_unmount can take it and complete.
C36_UnmountReleasesRegistry ==
    (pc \in {"ret", "idle"} /\ other.pc = "idle") => ~s_instances_lock

\* esp_jrnl_unmount has returned an error for a handle it rejected and the
\* mutex of the registry is still held
UnmountLeftRegistryLocked ==
    /\ Returned("unmount")
    /\ ret \in {"ESP_ERR_INVALID_ARG", "ESP_ERR_INVALID_STATE", "ESP_ERR_NOT_FOUND"}
    /\ s_instances_lock

\* ---------------------------------------------------------------------------
\* C37: jrnl_replay releases trans_lock on every return path, the failure to
\* allocate the header buffer included: when no call is running on a
\* registered instance its trans_lock is free, so a later esp_jrnl_start,
\* esp_jrnl_write, esp_jrnl_stop or esp_jrnl_set_direct_io does not block.
C37_ReplayReleasesLock ==
    (pc \in {"ret", "idle"} /\ other.pc = "idle") =>
        \A h \in Handles :
            s_jrnl_instance_ptrs[h] # NULL => ~instances[h].trans_lock

\* esp_jrnl_stop has returned ESP_ERR_NO_MEM from the replay and trans_lock
\* of the instance is still held
ReplayLeftInstanceLocked ==
    /\ Returned("stop") /\ ret = "ESP_ERR_NO_MEM"
    /\ s_jrnl_instance_ptrs[call.handle] # NULL
    /\ instances[call.handle].trans_lock

\* the allocation of the data buffer failed: the replay has left through its
\* exit and released trans_lock
ReplayDataNoMemReleased ==
    /\ Returned("stop") /\ ret = "ESP_ERR_NO_MEM"
    /\ ~instances[call.handle].trans_lock

\* ---------------------------------------------------------------------------
\* C38: under any interleaving of esp_jrnl_unmount with another operation on
\* the same handle no operation uses the instance after esp_jrnl_unmount has
\* freed it: a call that is at a step which reads or writes the instance finds
\* it allocated and registered under its handle.
C38_NoUseAfterUnmount ==
    (pc \in InstanceSteps /\ call.op # "mount") =>
        /\ instances[loc.inst].alloc
        /\ s_jrnl_instance_ptrs[loc.inst] # NULL

\* esp_jrnl_write is between the erase and the header write in the store and
\* the instance it works on has been freed by the unmount of the other thread
WriteOnFreedInstance ==
    /\ pc = "jw_hdr" /\ call.op = "write"
    /\ s_jrnl_instance_ptrs[loc.inst] = NULL
    /\ ~instances[loc.inst].alloc

\* the call has gone on with the freed instance and persisted its master
MasterPersistedFromFreedInstance ==
    /\ Returned("write") /\ ret = "ESP_OK"
    /\ s_jrnl_instance_ptrs[call.handle] = NULL
    /\ disk # call.predisk

\* ---------------------------------------------------------------------------
\* C39: jrnl_replay terminates. Every pass of the loop advances the cursor by
\* 1 + sector_count >= 1; on a store filled by accepted esp_jrnl_write calls
\* the loop makes one pass for each buffered entry, is left with the cursor
\* equal to next_free_sector, and then the master is reset.

\* the sectors the first k buffered entries take in the store
RECURSIVE EntrySectors(_, _)
EntrySectors(ws, k) ==
    IF k = 0 THEN 0 ELSE EntrySectors(ws, k - 1) + (1 + ws[k].count)

\* the passes the loop has made when the cursor is on the boundary of an entry
PassesMade ==
    { k \in 0 .. Len(gh.txWrites) : EntrySectors(gh.txWrites, k) = loc.cursor }

ReplayOfCommit == pc \in {"rp_loop", "rp_erase", "rp_write"}

ReplayFinished ==
    /\ pc = "upd_erase" /\ loc.cont = "replay" /\ gh.applied
    /\ M(loc.inst).status = ESP_JRNL_STATUS_TRANS_READY
    /\ M(loc.inst).next_free_sector = 0

C39_ReplayTerminates ==
    /\ [](ReplayOfCommit =>
            /\ Cardinality(PassesMade) = 1
            /\ loc.cursor <= M(loc.inst).next_free_sector
            /\ M(loc.inst).next_free_sector
                  = EntrySectors(gh.txWrites, Len(gh.txWrites)))
    /\ [][ /\ pc = "rp_write" => /\ loc'.cursor = loc.cursor + 1 + loc.hdr.sector_count
                                 /\ loc'.cursor > loc.cursor
                                 /\ PassesMade' = { k + 1 : k \in PassesMade }
           /\ (pc = "rp_loop" /\ pc' # "rp_erase") =>
                 /\ loc.cursor = M(loc.inst).next_free_sector
                 /\ PassesMade = {Len(gh.txWrites)}
                 /\ ReplayFinished' ]_vars
    /\ (ReplayOfCommit ~> ReplayFinished)

\* the replay of a journal of two entries has made its two passes
C39_Witness ==
    /\ pc = "rp_loop" /\ Len(gh.txWrites) = 2
    /\ loc.cursor = M(loc.inst).next_free_sector
    /\ PassesMade = {2}

\* ... and the master has been reset after them
C39_WitnessReset ==
    /\ ReplayFinished /\ Len(gh.txWrites) = 2 /\ loc.cursor > 2

\* ---------------------------------------------------------------------------
\* C40: when esp_vfs_fat_spiflash_mount_jrnl fails at a step after the
\* wear-levelling layer was mounted, it has released all it acquired when it
\* returns (the wear-levelling instance, the journal instance, the disk I/O
\* registration, the volume and path registrations) and *jrnl_handle is as
\* the caller left it.
VfsMountFailed ==
    /\ vfs.pc = "done" /\ vfs.op = "mount"
    /\ vfs.result \notin {"ESP_OK", "ESP_ERR_NOT_FOUND"}

C40_FailedMountReleasesAll ==
    VfsMountFailed =>
        /\ vfs.wl = 0
        /\ \A h \in Handles : s_jrnl_instance_ptrs[h] = NULL
        /\ ~vfs.diskio /\ ~vfs.pdrvh /\ ~vfs.path /\ ~vfs.fmounted
        /\ vfs.out = JRNL_INVALID_HANDLE

\* esp_jrnl_mount has failed and the glue has returned its error with the
\* wear-levelling layer still mounted
VfsMountLeftWlMounted ==
    /\ VfsMountFailed
    /\ \A h \in Handles : s_jrnl_instance_ptrs[h] = NULL
    /\ vfs.wl = 1 /\ vfs.calls = 1

\* a failure after the disk I/O was registered: all is released
VfsMountFailedReleased ==
    /\ VfsMountFailed /\ vfs.calls = 1
    /\ vfs.result = "ESP_FAIL"
    /\ vfs.wl = 0 /\ \A h \in Handles : s_jrnl_instance_ptrs[h] = NULL
    /\ DiskHasMaster

====
